---- MODULE Spec2Model ----
(***************************************************************************)
(* Model of the structured-logging subsystem of the boilerplate service:   *)
(* the configuration resolver (src/v1/config/logging.ts), the sink factory *)
(* and retention pruner (src/v1/utils/logging/logger.ts) and the logger    *)
(* facade (src/v1/utils/logging/index.ts).                                 *)
(*                                                                         *)
(* Strings are sequences of tokens.  Where the code inspects characters    *)
(* (trim, toLowerCase, split, parseInt) a token is one character; file     *)
(* names use coarser tokens ("svc", "-", "2025-01-01", ".log").            *)
(* Instants are [day, ms]: days since 1970-01-01 and milliseconds of the   *)
(* day, so that millisecond arithmetic stays inside TLC's integers.        *)
(***************************************************************************)
EXTENDS Integers, Sequences, FiniteSets, TLC

VARIABLES
  env,        \* process.env: the variables the logging code reads
  pc,         \* position of the process: "boot", "configured", "ready", "crashed", "pruned";
              \* of an HTTP exchange: "request", "handler", "responded"
  config,     \* the LoggerConfig in use
  streams,    \* the sinks createLogger pushed: [console, file, level, fileName]
  console,    \* what console.log has printed, oldest first
  dirExists,  \* whether ./logs exists
  files,      \* ./logs: file name -> sequence of written chunks
  now,        \* the clock, [day, ms]
  calls,      \* number of logging calls made so far
  last        \* the latest call and what it observed (history variable);
              \* for an HTTP exchange, its request, response and history

vars == <<env, pc, config, streams, console, dirExists, files, now, calls, last>>

(***************************************************************************)
(* Strings                                                                 *)
(***************************************************************************)
Whitespace == {" ", "\t"}

UpperCase == <<"A","B","C","D","E","F","G","H","I","J","K","L","M",
               "N","O","P","Q","R","S","T","U","V","W","X","Y","Z">>
LowerCase == <<"a","b","c","d","e","f","g","h","i","j","k","l","m",
               "n","o","p","q","r","s","t","u","v","w","x","y","z">>

\* String.prototype.toLowerCase, one character
LowerChar(c) ==
  IF \E i \in DOMAIN UpperCase : UpperCase[i] = c
  THEN LowerCase[CHOOSE i \in DOMAIN UpperCase : UpperCase[i] = c]
  ELSE c

toLowerCase(s) == [i \in DOMAIN s |-> LowerChar(s[i])]

RECURSIVE trimStart(_)
trimStart(s) ==
  IF s # <<>> /\ Head(s) \in Whitespace THEN trimStart(Tail(s)) ELSE s

RECURSIVE trimEnd(_)
trimEnd(s) ==
  IF s # <<>> /\ s[Len(s)] \in Whitespace
  THEN trimEnd(SubSeq(s, 1, Len(s) - 1)) ELSE s

\* String.prototype.trim
trim(s) == trimEnd(trimStart(s))

\* String.prototype.split(','): the items between the commas, in order
RECURSIVE split(_)
split(s) ==
  IF \E i \in DOMAIN s : s[i] = ","
  THEN LET i == CHOOSE j \in DOMAIN s :
                  s[j] = "," /\ \A k \in 1..(j - 1) : s[k] # ","
       IN <<SubSeq(s, 1, i - 1)>> \o split(SubSeq(s, i + 1, Len(s)))
  ELSE <<s>>

startsWith(s, prefix) ==
  Len(s) >= Len(prefix) /\ SubSeq(s, 1, Len(prefix)) = prefix

endsWith(s, suffix) ==
  Len(s) >= Len(suffix) /\ SubSeq(s, Len(s) - Len(suffix) + 1, Len(s)) = suffix

\* String.prototype.slice(from, to) for 0 <= from, 0 <= to
slice(s, from, to) == SubSeq(s, from + 1, to)

(***************************************************************************)
(* Numbers: JavaScript numbers the code computes are integers or NaN       *)
(***************************************************************************)
NaN == [nan |-> TRUE, n |-> 0]
Num(k) == [nan |-> FALSE, n |-> k]

Digits == <<"0","1","2","3","4","5","6","7","8","9">>
IsDigit(c) == \E i \in DOMAIN Digits : Digits[i] = c
DigitVal(c) == (CHOOSE i \in DOMAIN Digits : Digits[i] = c) - 1

\* value of the longest prefix of digits of s, continuing from acc
RECURSIVE digitsValue(_, _)
digitsValue(s, acc) ==
  IF s # <<>> /\ IsDigit(Head(s))
  THEN digitsValue(Tail(s), acc * 10 + DigitVal(Head(s)))
  ELSE acc

\* parseInt(s): leading whitespace skipped, optional sign, then the longest
\* run of decimal digits; NaN when there is no digit
parseInt(s) ==
  LET t == trimStart(s)
      neg == t # <<>> /\ Head(t) = "-"
      u == IF t # <<>> /\ Head(t) \in {"-", "+"} THEN Tail(t) ELSE t
  IN IF u = <<>> \/ ~IsDigit(Head(u)) THEN NaN
     ELSE Num(IF neg THEN 0 - digitsValue(u, 0) ELSE digitsValue(u, 0))

\* Number(s) for a string: the whole trimmed string must be a decimal
\* integer; the empty string is 0
Number(s) ==
  LET t == trim(s)
      neg == t # <<>> /\ Head(t) = "-"
      u == IF t # <<>> /\ Head(t) \in {"-", "+"} THEN Tail(t) ELSE t
  IN IF t = <<>> THEN Num(0)
     ELSE IF u = <<>> \/ \E i \in DOMAIN u : ~IsDigit(u[i]) THEN NaN
     ELSE Num(IF neg THEN 0 - digitsValue(u, 0) ELSE digitsValue(u, 0))

(***************************************************************************)
(* process.env                                                             *)
(***************************************************************************)
Unset == [set |-> FALSE, val |-> <<>>]
Val(s) == [set |-> TRUE, val |-> s]

\* `process.env.X || dflt`: unset and the empty string are both falsy
OrDefault(v, dflt) == IF v.set /\ v.val # <<>> THEN v.val ELSE dflt

(***************************************************************************)
(* String literals of the source                                           *)
(***************************************************************************)
fatal  == <<"f","a","t","a","l">>
error  == <<"e","r","r","o","r">>
warn   == <<"w","a","r","n">>
info   == <<"i","n","f","o">>
debug  == <<"d","e","b","u","g">>
trace  == <<"t","r","a","c","e">>
silent == <<"s","i","l","e","n","t">>

consoleT     == <<"c","o","n","s","o","l","e">>
fileT        == <<"f","i","l","e">>
bothT        == <<"b","o","t","h">>
consoleFileT == consoleT \o <<",">> \o fileT

development == <<"development">>
local       == <<"local">>
qa          == <<"qa">>
staging     == <<"staging">>
production  == <<"production">>

DefaultServiceName == <<"nodets", "-", "boilerplate">>

(***************************************************************************)
(* Configuration resolver                                                  *)
(***************************************************************************)
ALLOWED_LOG_LEVELS == {fatal, error, warn, info, debug, trace, silent}

sanitizeLogLevelNoTrim(raw, fallback) ==
  LET level == toLowerCase(OrDefault(raw, <<>>))
  IN IF level \in ALLOWED_LOG_LEVELS THEN level ELSE fallback

sanitizeLogLevel(raw, fallback) ==
  LET level == toLowerCase(trim(OrDefault(raw, <<>>)))
  IN IF level \in ALLOWED_LOG_LEVELS THEN level ELSE fallback

\* one entry of the `configs` table
EnvEntry(e, dfltLevel, dfltTransport, dfltDays) ==
  [level           |-> sanitizeLogLevel(e.LOG_LEVEL, dfltLevel),
   transport       |-> OrDefault(e.LOG_TRANSPORT, dfltTransport),
   rotationDays    |-> parseInt(OrDefault(e.LOG_ROTATION_DAYS, dfltDays)),
   enableRedaction |-> TRUE]

\* the same table with the retention of production and staging exchanged
configsSwappedRetention(e) ==
  (development :> EnvEntry(e, debug, consoleT, <<"3">>)) @@
  (local       :> EnvEntry(e, debug, consoleT, <<"3">>)) @@
  (qa          :> EnvEntry(e, info, consoleFileT, <<"7">>)) @@
  (staging     :> EnvEntry(e, info, consoleFileT, <<"1","4">>)) @@
  (production  :> EnvEntry(e, error, fileT, <<"7">>))

\* the same table with `parseInt(...) || 3`: a falsy number replaced
configsRetentionOrDefault(e) ==
  LET fix(c) == IF c.rotationDays.nan \/ c.rotationDays.n = 0
                THEN [c EXCEPT !.rotationDays = Num(3)] ELSE c
  IN (development :> fix(EnvEntry(e, debug, consoleT, <<"3">>))) @@
     (local       :> fix(EnvEntry(e, debug, consoleT, <<"3">>))) @@
     (qa          :> fix(EnvEntry(e, info, consoleFileT, <<"7">>))) @@
     (staging     :> fix(EnvEntry(e, info, consoleFileT, <<"7">>))) @@
     (production  :> fix(EnvEntry(e, error, fileT, <<"1","4">>)))

\* the `configs` object literal of getLoggingConfig
configs(e) ==
  (development :> EnvEntry(e, debug, consoleT, <<"3">>)) @@
  (local       :> EnvEntry(e, debug, consoleT, <<"3">>)) @@
  (qa          :> EnvEntry(e, info, consoleFileT, <<"7">>)) @@
  (staging     :> EnvEntry(e, info, consoleFileT, <<"7">>)) @@
  (production  :> EnvEntry(e, error, fileT, <<"1","4">>))

\* `configs` is an object literal, so configs[k] also finds the members it
\* inherits from Object.prototype: functions (and, for __proto__, the
\* prototype itself), all truthy and all without own enumerable properties
ObjectPrototypeKeys ==
  {<<"constructor">>, <<"toString">>, <<"valueOf">>, <<"hasOwnProperty">>,
   <<"isPrototypeOf">>, <<"propertyIsEnumerable">>, <<"toLocaleString">>,
   <<"__proto__">>}

\* a LoggerConfig none of whose environment fields is set (they are undefined)
NoEnvFields(service, environment) ==
  [service |-> service, environment |-> environment, hasEnvFields |-> FALSE,
   level |-> <<>>, transport |-> <<>>, rotationDays |-> NaN,
   enableRedaction |-> FALSE]

getLoggingConfig(e) ==
  LET environment == OrDefault(e.NODE_ENV, development)
      serviceName == OrDefault(e.LOG_SERVICE_NAME, DefaultServiceName)
      table == configs(e)
      spread(c) ==
        [service |-> serviceName, environment |-> environment,
         hasEnvFields |-> TRUE, level |-> c.level, transport |-> c.transport,
         rotationDays |-> c.rotationDays, enableRedaction |-> c.enableRedaction]
  IN IF environment \in DOMAIN table THEN spread(table[environment])
     ELSE IF environment \in ObjectPrototypeKeys
          THEN NoEnvFields(serviceName, environment)
     ELSE spread(table[development])

(***************************************************************************)
(* State before anything has run                                           *)
(***************************************************************************)
NoConfig  == NoEnvFields(<<>>, <<>>)
NoStreams == [console |-> FALSE, file |-> FALSE, level |-> <<>>, fileName |-> <<>>,
              detached |-> FALSE]
Epoch     == [day |-> 0, ms |-> 0]
NoCall    == [op |-> "none", level |-> <<>>, msg |-> "",
              context |-> [def |-> FALSE, val |-> <<>>],
              err |-> [def |-> FALSE, val |-> <<>>],
              consoleBefore |-> 0, fileBefore |-> 0, filesBefore |-> <<>>,
              service |-> <<>>, keepDays |-> [nan |-> TRUE, n |-> 0],
              threw |-> FALSE, listFails |-> FALSE, unlinkErrors |-> {},
              startFiles |-> <<>>, startedAt |-> Epoch,
              obj |-> <<>>, shown |-> <<>>,
              data |-> [json |-> "none", text |-> "", rec |-> <<>>]]

Environments == {development, local, qa, staging, production}

(***************************************************************************)
(* SpecConfig: the configuration resolver applied to every modelled        *)
(* environment                                                             *)
(***************************************************************************)
NodeEnvInputs ==
  {Unset, Val(<<>>)} \cup {Val(n) : n \in Environments}
  \cup {Val(<<"test">>), Val(<<"Production">>), Val(<<"constructor">>)}

LogLevelInputs ==
  {Unset, Val(<<>>)} \cup {Val(l) : l \in ALLOWED_LOG_LEVELS}
  \cup {Val(<<"I","N","F","O">>), Val(<<" ","W","a","r","n"," ">>),
        Val(<<"t","r","a","c","e","\t">>), Val(fileT), Val(<<"F","O","O">>)}

LogTransportInputs ==
  {Unset, Val(<<>>), Val(consoleT), Val(fileT), Val(bothT), Val(consoleFileT),
   Val(consoleT \o <<",", " ">> \o fileT), Val(<<"f","o","o">>),
   Val(consoleT \o <<",","f","o","o">>)}

LogRotationInputs ==
  {Unset, Val(<<>>), Val(<<"7">>), Val(<<"1","0">>), Val(<<"0">>),
   Val(<<"-","5">>), Val(<<"a","b","c">>), Val(<<"7","d">>),
   Val(<<" ","2">>), Val(<<"1",".","5">>)}

ServiceNameInputs == {Unset, Val(<<"svc">>)}

InitConfig ==
  /\ env \in [NODE_ENV : NodeEnvInputs, LOG_LEVEL : LogLevelInputs,
              LOG_TRANSPORT : LogTransportInputs,
              LOG_ROTATION_DAYS : LogRotationInputs,
              LOG_SERVICE_NAME : ServiceNameInputs,
              MILLISECONDS_PER_DAY : {Unset}]
  /\ pc = "boot"
  /\ config = NoConfig
  /\ streams = NoStreams
  /\ console = <<>>
  /\ dirExists = FALSE
  /\ files = <<>>
  /\ now = Epoch
  /\ calls = 0
  /\ last = NoCall

\* index.ts line 22: const config = getLoggingConfig()
ResolveConfig ==
  /\ pc = "boot"
  /\ config' = getLoggingConfig(env)
  /\ pc' = "configured"
  /\ UNCHANGED <<env, streams, console, dirExists, files, now, calls, last>>

NextConfig == ResolveConfig

SpecConfig == InitConfig /\ [][NextConfig]_vars

\* the documented defaults, as the specification states them
DocLevel(n) ==
  CASE n \in {development, local} -> debug
    [] n \in {qa, staging}        -> info
    [] n = production             -> error
DocTransport(n) ==
  CASE n \in {development, local} -> consoleT
    [] n \in {qa, staging}        -> consoleFileT
    [] n = production             -> fileT
DocRetention(n) ==
  CASE n \in {development, local} -> 3
    [] n \in {qa, staging}        -> 7
    [] n = production             -> 14

Resolved == pc = "configured"
KnownEnv == env.NODE_ENV.set /\ env.NODE_ENV.val \in Environments
NoOverrides ==
  ~env.LOG_LEVEL.set /\ ~env.LOG_TRANSPORT.set /\ ~env.LOG_ROTATION_DAYS.set

\* C4: for each of the five environments, with LOG_LEVEL, LOG_TRANSPORT and
\* LOG_ROTATION_DAYS unset, the resolved (level, transport, retention days) is
\* the documented triple; enableRedaction is true for each of the five
\* environments, whatever the overrides.
C4_DocumentedDefaults ==
  (Resolved /\ KnownEnv) =>
    /\ config.enableRedaction
    /\ NoOverrides =>
         /\ config.level = DocLevel(env.NODE_ENV.val)
         /\ config.transport = DocTransport(env.NODE_ENV.val)
         /\ config.rotationDays = Num(DocRetention(env.NODE_ENV.val))

C4_Witness ==
  /\ Resolved /\ NoOverrides
  /\ env.NODE_ENV = Val(production)
  /\ config.level = error /\ config.transport = fileT
  /\ config.rotationDays = Num(14)

\* what the specification calls the normalized override: trimmed, lower-cased
Normalized(v) == toLowerCase(trim(OrDefault(v, <<>>)))

\* C5: for each of the five environments and every LOG_LEVEL value, the
\* resolved level is the trimmed, lower-cased value when that is one of the
\* seven level names and the environment's default otherwise; it is always
\* one of the seven names.  (" Warn " gives warn, "file" gives the default.)
C5_LevelSanitized ==
  (Resolved /\ KnownEnv) =>
    /\ config.level \in ALLOWED_LOG_LEVELS
    /\ Normalized(env.LOG_LEVEL) \in ALLOWED_LOG_LEVELS
         => config.level = Normalized(env.LOG_LEVEL)
    /\ Normalized(env.LOG_LEVEL) \notin ALLOWED_LOG_LEVELS
         => config.level = DocLevel(env.NODE_ENV.val)
    /\ env.LOG_LEVEL = Val(<<" ","W","a","r","n"," ">>) => config.level = warn
    /\ env.LOG_LEVEL = Val(<<"I","N","F","O">>) => config.level = info
    /\ env.LOG_LEVEL \in {Unset, Val(<<>>), Val(fileT), Val(<<"F","O","O">>)}
         => config.level = DocLevel(env.NODE_ENV.val)

C5_Witness ==
  /\ Resolved
  /\ env.NODE_ENV = Val(production)
  /\ env.LOG_LEVEL = Val(fileT)
  /\ config.level = error

\* a valid transport value: both, or a comma-separated list of console/file
ValidTransport(s) ==
  \/ s = bothT
  \/ \A i \in DOMAIN split(s) : trim(split(s)[i]) \in {consoleT, fileT}

\* C6 (as claimed): an invalid LOG_TRANSPORT override is replaced by the
\* environment's default transport.
C6_InvalidTransportFallsBack ==
  (Resolved /\ KnownEnv /\ env.LOG_TRANSPORT.set
     /\ ~ValidTransport(env.LOG_TRANSPORT.val))
    => config.transport = DocTransport(env.NODE_ENV.val)

\* what parseInt gives for each modelled LOG_ROTATION_DAYS text
RotationOracle(v) ==
  CASE v = Val(<<"7">>)         -> Num(7)
    [] v = Val(<<"1","0">>)     -> Num(10)
    [] v = Val(<<"0">>)         -> Num(0)
    [] v = Val(<<"-","5">>)     -> Num(0 - 5)
    [] v = Val(<<"a","b","c">>) -> NaN
    [] v = Val(<<"7","d">>)     -> Num(7)
    [] v = Val(<<" ","2">>)     -> Num(2)
    [] v = Val(<<"1",".","5">>) -> Num(1)

PositiveInteger(x) == ~x.nan /\ x.n > 0

\* C7 (as claimed): the retention window is a positive integer whatever
\* LOG_ROTATION_DAYS holds.
C7_RetentionAlwaysPositive ==
  (Resolved /\ KnownEnv) => PositiveInteger(config.rotationDays)

\* C7 (amended): for each of the five environments the retention window is
\* the environment's default when LOG_ROTATION_DAYS is unset or empty, and
\* otherwise the integer its text starts with: positive for "7" or "7d", but
\* 0 for "0", negative for "-5" and NaN for text without leading digits;
\* no such value is replaced by the default.
C7_RetentionIsParsedOverride ==
  (Resolved /\ KnownEnv) =>
    /\ env.LOG_ROTATION_DAYS \in {Unset, Val(<<>>)} =>
         /\ config.rotationDays = Num(DocRetention(env.NODE_ENV.val))
         /\ PositiveInteger(config.rotationDays)
    /\ env.LOG_ROTATION_DAYS \notin {Unset, Val(<<>>)} =>
         config.rotationDays = RotationOracle(env.LOG_ROTATION_DAYS)

C7_Witness ==
  /\ Resolved /\ KnownEnv
  /\ env.LOG_ROTATION_DAYS = Val(<<"a","b","c">>)
  /\ config.rotationDays.nan

\* C8 (as claimed): a NODE_ENV that is none of the five names (or is unset)
\* resolves level, transport and retention as development does, overrides
\* included.
C8_UnknownEnvIsDevelopment ==
  (Resolved /\ ~KnownEnv) =>
    LET dev == getLoggingConfig([env EXCEPT !.NODE_ENV = Val(development)])
    IN /\ config.hasEnvFields
       /\ config.level = dev.level
       /\ config.transport = dev.transport
       /\ config.rotationDays = dev.rotationDays

(***************************************************************************)
(* JavaScript values that are logged                                       *)
(*                                                                         *)
(* An object is the function from the paths of its leaves (sequences of    *)
(* keys) to their scalar values; <<>> is the empty object {}.  An optional  *)
(* argument is [def, val]: def is FALSE for undefined.                      *)
(***************************************************************************)
Undefined == [def |-> FALSE, val |-> <<>>]
Def(o) == [def |-> TRUE, val |-> o]

\* the object { k: o }
Under(k, o) == [p \in {<<k>> \o q : q \in DOMAIN o} |-> o[Tail(p)]]

\* the value o[k] of an object given by its leaves
Sub(o, k) ==
  [q \in {Tail(p) : p \in {r \in DOMAIN o : r # <<>> /\ r[1] = k}}
     |-> o[<<k>> \o q]]

\* Object.keys(o)
Keys(o) == {p[1] : p \in {r \in DOMAIN o : r # <<>>}}

LevelUpper == <<"T","R","A","C","E","D","B","U","G","I","N","F","O","W","L">>
LevelLower == <<"t","r","a","c","e","d","b","u","g","i","n","f","o","w","l">>

\* String.prototype.toUpperCase over the letters of the level labels
UpperChar(c) ==
  IF \E i \in DOMAIN LevelLower : LevelLower[i] = c
  THEN LevelUpper[CHOOSE i \in DOMAIN LevelLower : LevelLower[i] = c]
  ELSE c

toUpperCase(s) == [i \in DOMAIN s |-> UpperChar(s[i])]

(***************************************************************************)
(* Redaction: loggerConfig.redact of createLogger                          *)
(***************************************************************************)
Censor == "[REDACTED]"

RedactPaths ==
  { <<"req","headers","authorization">>, <<"req","headers","cookie">>,
    <<"res","headers","set-cookie">>,
    <<"user","password">>, <<"user","token">>, <<"user","apiKey">>,
    <<"user","email">>, <<"user","phone">>, <<"user","phoneNumber">>,
    <<"data","password">>, <<"data","token">>, <<"data","apiKey">>,
    <<"data","api_key">>, <<"data","secret">>, <<"data","email">>,
    <<"data","phone">>, <<"data","phoneNumber">>, <<"data","cvv">>,
    <<"data","card">>, <<"data","cardNumber">>, <<"data","card_number">>,
    <<"data","bank">>, <<"data","account">>,
    <<"context","password">>, <<"context","token">>, <<"context","apiKey">>,
    <<"context","email">>, <<"context","phone">>, <<"context","phoneNumber">>,
    <<"req","body","password">>, <<"req","body","token">>,
    <<"req","body","apiKey">>, <<"req","body","cvv">>, <<"req","body","card">>,
    <<"req","body","cardNumber">>, <<"req","query","token">>,
    <<"req","query","apiKey">>, <<"req","params","token">>,
    <<"email">>, <<"password">>, <<"token">>, <<"jwt">>, <<"session_jwt">>,
    <<"apiKey">>, <<"userId">>, <<"user_id">>, <<"credentialId">>,
    <<"credential_id">>,
    <<"context","methodId">>, <<"context","method_id">>, <<"context","otp">>,
    <<"context","code">>, <<"context","userId">>, <<"context","user_id">>,
    <<"context","credentialId">>, <<"context","credential_id">>,
    <<"*","email">>, <<"*","password">>, <<"*","token">>, <<"*","jwt">>,
    <<"*","apiKey">>, <<"*","api_key">>, <<"*","secret">>, <<"*","cvv">>,
    <<"*","cardNumber">>, <<"*","card_number">>, <<"*","authorization">>,
    <<"*","sessionJwt">>, <<"*","session_jwt">>, <<"*","accessToken">>,
    <<"*","access_token">>, <<"*","refreshToken">>, <<"*","refresh_token">>,
    <<"*","privateKey">>, <<"*","private_key">>, <<"*","secretKey">>,
    <<"*","secret_key">>, <<"*","methodId">>, <<"*","method_id">>,
    <<"*","userId">>, <<"*","user_id">>, <<"*","credentialId">>,
    <<"*","credential_id">> }

\* NestedPaths without the wildcard paths
NestedPathsLiteralOnly(k) ==
  {Tail(p) : p \in {r \in RedactPaths : Len(r) >= 2 /\ r[1] = k}}

\* the paths pino's redactor applies below the top-level key k: the rest of
\* every listed path that starts with k or with the wildcard
NestedPaths(k) ==
  {Tail(p) : p \in {r \in RedactPaths : Len(r) >= 2 /\ r[1] \in {k, "*"}}}

\* the non-empty prefixes of a path
Prefixes(p) == {SubSeq(p, 1, n) : n \in 1..Len(p)}

\* whether the value at path q of the logged object is replaced by the censor
Censored(q) ==
  \/ <<q[1]>> \in RedactPaths /\ Len(q) = 1
  \/ <<q[1]>> \notin RedactPaths /\ Len(q) >= 2 /\ Tail(q) \in NestedPaths(q[1])

\* where the leaf at path p ends up: at its shortest censored prefix, or at p
Target(p) ==
  IF \E q \in Prefixes(p) : Censored(q)
  THEN CHOOSE q \in Prefixes(p) :
         Censored(q) /\ \A r \in Prefixes(p) : Censored(r) => Len(q) <= Len(r)
  ELSE p

\* the value of a property defined by an accessor that throws when read
Thrower == "<accessor that throws>"

\* the redactor reads the value at every listed path that exists before it
\* overwrites it; reading an accessor that throws raises, and nothing in
\* pino or in the facade catches it
redactThrows(leaves) ==
  \E p \in DOMAIN leaves : leaves[p] = Thrower /\ Censored(p)

\* a redactor whose censor depends on the value it replaces
redactMasking(leaves) ==
  [q \in {Target(p) : p \in DOMAIN leaves}
     |-> IF ~Censored(q) THEN leaves[q]
         ELSE IF q \in DOMAIN leaves /\ leaves[q] = Censor THEN Censor \o Censor
         ELSE Censor]

\* the logged object after redaction
redact(leaves) ==
  [q \in {Target(p) : p \in DOMAIN leaves}
     |-> IF Censored(q) THEN Censor ELSE leaves[q]]

(***************************************************************************)
(* Clock and dates                                                         *)
(***************************************************************************)
\* the calendar dates the model names, by day number since 1970-01-01
DateText ==
  (18262 :> "2020-01-01") @@ (20074 :> "2024-12-17") @@
  (20075 :> "2024-12-18") @@ (20088 :> "2024-12-31") @@
  (20089 :> "2025-01-01") @@ (20090 :> "2025-01-02") @@
  (20091 :> "2025-01-03")

\* new Date().toISOString().split('T')[0]
isoDate(t) == <<DateText[t.day]>>

\* a date parser that skips what stands before the date
dateParseLenient(datePart) ==
  IF datePart # <<>> /\ \E d \in DOMAIN DateText : DateText[d] = datePart[Len(datePart)]
  THEN Num(CHOOSE d \in DOMAIN DateText : DateText[d] = datePart[Len(datePart)])
  ELSE NaN

\* Date.parse(`${datePart}T00:00:00Z`): midnight UTC of the date, or NaN
dateParse(datePart) ==
  IF Len(datePart) = 1 /\ \E d \in DOMAIN DateText : DateText[d] = datePart[1]
  THEN Num(CHOOSE d \in DOMAIN DateText : DateText[d] = datePart[1])
  ELSE NaN

(***************************************************************************)
(* Pino: level gate, redaction and fan-out to the streams                  *)
(***************************************************************************)
\* pino's numeric severities; silent is Infinity and is handled apart
levelValue(l) ==
  CASE l = trace -> 10 [] l = debug -> 20 [] l = info -> 30
    [] l = warn -> 40 [] l = error -> 50 [] l = fatal -> 60

\* a threshold passes a record when its value is at most the record's
atLeastStrict(l, threshold) ==
  threshold # silent /\ levelValue(l) > levelValue(threshold)

atLeast(l, threshold) ==
  threshold # silent /\ levelValue(l) >= levelValue(threshold)

\* the merging object `{ context, error }` as JSON.stringify keeps it:
\* a key whose value is undefined is dropped
mergingObject(context, err) ==
  [top    |-> {k \in {"context"} : context.def} \cup {k \in {"error"} : err.def},
   leaves |-> (IF context.def THEN Under("context", context.val) ELSE <<>>)
              @@ (IF err.def THEN Under("error", err.val) ELSE <<>>)]

\* the error detail without the stack
errorDetailNoStack(e) ==
  IF ~e.def THEN Undefined
  ELSE Def((<<"name">> :> e.val.name) @@ (<<"message">> :> e.val.message)
           @@ (IF e.val.code.def THEN (<<"code">> :> e.val.code.val) ELSE <<>>))

\* the error detail the facade builds from an Error: name, message, stack,
\* and code when the error carries one
errorDetail(e) ==
  IF ~e.def THEN Undefined
  ELSE Def((<<"name">> :> e.val.name) @@ (<<"message">> :> e.val.message)
           @@ (<<"stack">> :> e.val.stack)
           @@ (IF e.val.code.def THEN (<<"code">> :> e.val.code.val) ELSE <<>>))

\* the record pino serialises: level label, ISO time, base metadata, the
\* (redacted) merging object and the message
pinoRecord(cfg, level, obj, msg, t) ==
  [level |-> level, time |-> t, service |-> cfg.service,
   env |-> cfg.environment, msg |-> msg, top |-> obj.top,
   leaves |-> IF cfg.enableRedaction THEN redact(obj.leaves) ELSE obj.leaves]

\* log.context / log.error as the sinks read them from the parsed record
field(rec, k) == [def |-> k \in rec.top, val |-> Sub(rec.leaves, k)]

\* createConsoleStream().write: one console.log of `[LEVEL] {entry}`
consoleWrite(rec) ==
  <<[prefix    |-> toUpperCase(rec.level),
     timestamp |-> rec.time, level |-> rec.level, service |-> rec.service,
     env |-> rec.env, message |-> rec.msg,
     context |-> field(rec, "context"), error |-> field(rec, "error")]>>

Chunk(kind, t, level, msg, obj) ==
  [kind |-> kind, time |-> t, level |-> level, msg |-> msg, obj |-> obj]

\* the file block without its CONTEXT line
fileWriteNoContext(rec) ==
  LET err == field(rec, "error")
  IN <<Chunk("header", rec.time, toUpperCase(rec.level), rec.msg, <<>>)>>
     \o (IF err.def THEN <<Chunk("error", Epoch, <<>>, "", err.val)>> ELSE <<>>)
     \o <<Chunk("separator", Epoch, <<>>, "", <<>>)>>

\* the file block with a CONTEXT line for every context, empty or not
fileWriteAnyContext(rec) ==
  LET context == field(rec, "context")
      err == field(rec, "error")
  IN <<Chunk("header", rec.time, toUpperCase(rec.level), rec.msg, <<>>)>>
     \o (IF context.def
         THEN <<Chunk("context", Epoch, <<>>, "", context.val)>> ELSE <<>>)
     \o (IF err.def THEN <<Chunk("error", Epoch, <<>>, "", err.val)>> ELSE <<>>)
     \o <<Chunk("separator", Epoch, <<>>, "", <<>>)>>

\* createFileStream(...).write: the stream.write calls for one record
fileWrite(rec) ==
  LET context == field(rec, "context")
      err == field(rec, "error")
  IN <<Chunk("header", rec.time, toUpperCase(rec.level), rec.msg, <<>>)>>
     \o (IF context.def /\ Keys(context.val) # {}
         THEN <<Chunk("context", Epoch, <<>>, "", context.val)>> ELSE <<>>)
     \o (IF err.def THEN <<Chunk("error", Epoch, <<>>, "", err.val)>> ELSE <<>>)
     \o <<Chunk("separator", Epoch, <<>>, "", <<>>)>>

\* the session header createFileStream writes to a new or empty file
Banner(t) == Chunk("banner", t, <<>>, "", <<>>)

\* the string handed to a sink's write.  json tells what JSON.parse makes of
\* it: "record" an object with a string level (rec), "numericLevel" an
\* object whose level is a number, "null" the JSON null, "text" no JSON
Serialized(rec) == [json |-> "record", text |-> "<json of the record>", rec |-> rec]

\* the line of the sinks' try block whose statement throws for this input
\* (0: none): JSON.parse, the read of log.timestamp, log.level.toUpperCase()
fileThrowsAtLineLate(data) ==
  CASE data.json = "text" -> 137 [] data.json = "null" -> 138
    [] data.json = "numericLevel" -> 146 [] OTHER -> 0

fileThrowsAtLine(data) ==
  CASE data.json = "text" -> 137 [] data.json = "null" -> 138
    [] data.json = "numericLevel" -> 139 [] OTHER -> 0

consoleThrowsAtLine(data) ==
  CASE data.json = "text" -> 193 [] data.json = "null" -> 194
    [] data.json = "numericLevel" -> 194 [] OTHER -> 0

\* the stream.write calls of the file sink's try block with their lines
fileTryWrites(data) ==
  LET rec == data.rec
      context == field(rec, "context")
      err == field(rec, "error")
      level == IF data.json = "record" THEN toUpperCase(rec.level) ELSE <<>>
  IN <<[line |-> 145, chunk |-> Chunk("header", rec.time, level, rec.msg, <<>>)]>>
     \o (IF context.def /\ Keys(context.val) # {}
         THEN <<[line |-> 149, chunk |-> Chunk("context", Epoch, <<>>, "", context.val)]>>
         ELSE <<>>)
     \o (IF err.def
         THEN <<[line |-> 154, chunk |-> Chunk("error", Epoch, <<>>, "", err.val)]>>
         ELSE <<>>)
     \o <<[line |-> 158, chunk |-> Chunk("separator", Epoch, <<>>, "", <<>>)]>>

\* the fallback of the file sink: the marker with the untouched input, then
\* the separator
rawFallback(data) ==
  <<Chunk("raw", Epoch, <<>>, data.text, <<>>),
    Chunk("separator", Epoch, <<>>, "", <<>>)>>

\* a file sink whose catch block writes nothing
fileStreamWriteDropping(data) ==
  IF fileThrowsAtLine(data) = 0 THEN fileWrite(data.rec) ELSE <<>>

\* createFileStream(...).write(data): the try block up to the statement that
\* throws, then the catch block
fileStreamWrite(data) ==
  LET at == fileThrowsAtLine(data)
  IN IF at = 0 THEN fileWrite(data.rec)
     ELSE LET done == SelectSeq(fileTryWrites(data), LAMBDA w : w.line < at)
          IN [i \in DOMAIN done |-> done[i].chunk] \o rawFallback(data)

\* createConsoleStream().write(data): the formatted entry, or console.log of
\* the raw input from the catch block
consoleStreamWrite(data) ==
  IF consoleThrowsAtLine(data) = 0 THEN consoleWrite(data.rec)
  ELSE <<[raw |-> data.text]>>

\* transport parsing of createLogger
hasConsole(transport) ==
  \/ \E i \in DOMAIN split(transport) : trim(split(transport)[i]) = consoleT
  \/ transport = bothT

hasFileNoTrim(transport) ==
  \/ \E i \in DOMAIN split(transport) : split(transport)[i] = fileT
  \/ transport = bothT

hasFile(transport) ==
  \/ \E i \in DOMAIN split(transport) : trim(split(transport)[i]) = fileT
  \/ transport = bothT

logFileName(service, t) == service \o <<"-">> \o isoDate(t) \o <<".log">>

\* the stream entries createLogger pushes
createStreams(cfg, t) ==
  [console  |-> hasConsole(cfg.transport),
   file     |-> hasFile(cfg.transport),
   level    |-> cfg.level,
   fileName |-> IF hasFile(cfg.transport) THEN logFileName(cfg.service, t)
                ELSE <<>>,
   detached |-> FALSE]

\* createFileStream that writes the session header whatever the file holds
createFileStreamAlwaysBanner(fs, name, t) ==
  [f \in DOMAIN fs \cup {name} |->
     IF f = name THEN (IF name \in DOMAIN fs THEN fs[name] ELSE <<>>) \o <<Banner(t)>>
     ELSE fs[f]]

\* ./logs after createFileStream(name): the file exists (append mode creates
\* it) and starts with the session header when it was absent or empty
createFileStream(fs, name, t) ==
  IF name \in DOMAIN fs /\ fs[name] # <<>> THEN fs
  ELSE [f \in DOMAIN fs \cup {name} |-> IF f = name THEN <<Banner(t)>> ELSE fs[f]]

\* a stream opened with flags 'w': the chunks replace what the file held
\* when the process started
appendTruncating(fs, name, chunks) ==
  [f \in DOMAIN fs \cup {name} |->
     IF f = name
     THEN (IF name \in DOMAIN fs
           THEN SelectSeq(fs[name], LAMBDA c : c.kind # "earlier") ELSE <<>>)
          \o chunks
     ELSE fs[f]]

\* appending chunks to the file the stream has open
append(fs, name, chunks) ==
  [f \in DOMAIN fs \cup {name} |->
     IF f = name THEN (IF name \in DOMAIN fs THEN fs[name] ELSE <<>>) \o chunks
     ELSE fs[f]]

(***************************************************************************)
(* createLogger and the logging operations                                 *)
(***************************************************************************)
MaxCalls == 2

\* the file a record is appended to: the stream createFileStream opened, on
\* the path computed when the sink was created
targetFileOfDay(cfg, st, t) == logFileName(cfg.service, t)

targetFile(cfg, st, t) == st.fileName

\* chunks the open log file holds (none when there is no file sink)
fileContent(fs, st) ==
  IF st.file /\ st.fileName \in DOMAIN fs THEN fs[st.fileName] ELSE <<>>

\* createLogger(config): config.transport.split throws when the transport is
\* undefined; otherwise the sinks are created, the file sink with its
\* directory, file and session header
CreateLogger ==
  /\ pc = "configured"
  /\ IF ~config.hasEnvFields
     THEN /\ pc' = "crashed"
          /\ UNCHANGED <<streams, dirExists, files>>
     ELSE /\ pc' = "ready"
          /\ streams' = createStreams(config, now)
          /\ dirExists' = (dirExists \/ streams'.file)
          /\ files' = IF streams'.file
                      THEN createFileStream(files, streams'.fileName, now)
                      ELSE files
  /\ last' = [NoCall EXCEPT !.op = "create", !.startFiles = files,
                !.startedAt = now]
  /\ UNCHANGED <<env, config, console, now, calls>>

\* pinoLogger[level](obj, message): the logger's own level gate, then
\* multistream's write to every stream whose level is at most the record's
Log(op, level, context, err, message) ==
  LET obj == mergingObject(context, err)
      rec == pinoRecord(config, level, obj, message, now)
      enabled == atLeast(level, config.level)
      threw == enabled /\ config.enableRedaction /\ redactThrows(obj.leaves)
  IN /\ pc = "ready"
     /\ calls < MaxCalls
     /\ console' = IF enabled /\ ~threw /\ streams.console
                      /\ atLeast(level, streams.level)
                   THEN console \o consoleStreamWrite(Serialized(rec)) ELSE console
     /\ files' = IF enabled /\ ~threw /\ streams.file /\ ~streams.detached
                    /\ atLeast(level, streams.level)
                 THEN append(files, targetFile(config, streams, now),
                             fileStreamWrite(Serialized(rec)))
                 ELSE files
     /\ last' = [last EXCEPT !.op = op, !.level = level, !.msg = message,
                   !.context = context, !.err = err,
                   !.consoleBefore = Len(console),
                   !.fileBefore = Len(fileContent(files, streams)),
                   !.threw = threw]
     /\ calls' = calls + 1
     /\ UNCHANGED <<env, pc, config, streams, dirExists, now>>

\* logger.debug(message, context)
LoggerDebug(message, context) == Log("debug", debug, context, Undefined, message)

\* logger.info(message, context)
LoggerInfo(message, context) == Log("info", info, context, Undefined, message)

\* logger.warn(message, context)
LoggerWarn(message, context) == Log("warn", warn, context, Undefined, message)

\* logger.error(message, error, context)
LoggerError(message, e, context) ==
  Log("error", error, context, errorDetail(e), message)

\* logger.fatal(message, error, context)
LoggerFatal(message, e, context) ==
  Log("fatal", fatal, context, errorDetail(e), message)

\* createLogger(config).trace({ context }, message): the trace method of the
\* logger the factory returns, which the facade does not wrap
PinoTrace(message, context) == Log("trace", trace, context, Undefined, message)

(***************************************************************************)
(* Inputs of the logging operations                                        *)
(***************************************************************************)
Messages == {"user created"}

CtxBenign == (<<"requestId">> :> "r1")
CtxFlat ==
  (<<"requestId">> :> "r1") @@ (<<"password">> :> "s3cret")
  @@ (<<"jwt">> :> "tok") @@ (<<"code">> :> "c1")
CtxNested ==
  (<<"user", "password">> :> "s3cret") @@ (<<"user", "name">> :> "bob")
  @@ (<<"data", "token">> :> "tok")

PlainError ==
  [name |-> "Error", message |-> "boom", stack |-> "Error: boom\n at f",
   code |-> [def |-> FALSE, val |-> ""]]
CodedError ==
  [name |-> "PrismaError", message |-> "unique", stack |-> "PrismaError: unique",
   code |-> [def |-> TRUE, val |-> "P2002"]]

Noon2025 == [day |-> 20089, ms |-> 43200000]

\* ./logs holding yesterday's expired files is added by the pruner's inputs;
\* here: no directory, or today's file of service svc already written to
OldChunk == Chunk("earlier", Epoch, <<>>, "", <<>>)
SvcToday == logFileName(<<"svc">>, Noon2025)

(***************************************************************************)
(* SpecLogger: createLogger applied to every level and transport, then     *)
(* logging calls on the logger it returns                                  *)
(***************************************************************************)
TransportInputs ==
  {consoleT, fileT, bothT, consoleFileT,
   consoleT \o <<",", " ">> \o fileT, <<"f","o","o">>, <<>>,
   bothT \o <<",">> \o consoleT, <<" ">> \o bothT}

InitLogger ==
  /\ env = [NODE_ENV |-> Unset, LOG_LEVEL |-> Unset, LOG_TRANSPORT |-> Unset,
            LOG_ROTATION_DAYS |-> Unset, LOG_SERVICE_NAME |-> Unset,
            MILLISECONDS_PER_DAY |-> Unset]
  /\ pc = "configured"
  /\ config \in [service : {<<"svc">>}, environment : {development},
                 hasEnvFields : {TRUE}, level : ALLOWED_LOG_LEVELS,
                 transport : TransportInputs, rotationDays : {Num(3)},
                 enableRedaction : {TRUE}]
  /\ streams = NoStreams
  /\ console = <<>>
  /\ \/ dirExists = FALSE /\ files = <<>>
     \/ dirExists = TRUE /\ files = (SvcToday :> <<OldChunk>>)
  /\ now = Noon2025
  /\ calls = 0
  /\ last = NoCall

LoggerContexts == {Def(CtxBenign)}
LoggerErrors == {Undefined, Def(PlainError)}

NextLogger ==
  \/ CreateLogger
  \/ \E m \in Messages, c \in LoggerContexts :
       \/ PinoTrace(m, c)
       \/ LoggerDebug(m, c)
       \/ LoggerInfo(m, c)
       \/ LoggerWarn(m, c)
       \/ \E e \in LoggerErrors : LoggerError(m, e, c)
       \/ \E e \in LoggerErrors : LoggerFatal(m, e, c)

SpecLogger == InitLogger /\ [][NextLogger]_vars

\* what the latest call added to the console and to the open log file
NewOnConsole == SubSeq(console, last.consoleBefore + 1, Len(console))
NewInFile ==
  SubSeq(fileContent(files, streams), last.fileBefore + 1,
         Len(fileContent(files, streams)))

Called == pc = "ready" /\ last.op \in {"trace", "debug", "info", "warn", "error", "fatal"}

\* the fixed ordering trace < debug < info < warn < error < fatal
SeverityOrder == <<trace, debug, info, warn, error, fatal>>
Rank(l) == CHOOSE i \in DOMAIN SeverityOrder : SeverityOrder[i] = l
Passes(s, t) == t # silent /\ Rank(s) >= Rank(t)

\* C1: a sink created with threshold T receives the record of a call of
\* severity S if and only if S >= T in trace < debug < info < warn < error <
\* fatal; the console sink then prints exactly one entry and the file sink
\* writes exactly one header line, both of that severity; with threshold
\* silent nothing is emitted on any sink.
C1_LevelGate ==
  Called =>
    /\ streams.console =>
         IF Passes(last.level, config.level)
         THEN /\ Len(NewOnConsole) = 1
              /\ NewOnConsole[1].level = last.level
              /\ NewOnConsole[1].message = last.msg
         ELSE NewOnConsole = <<>>
    /\ streams.file =>
         IF Passes(last.level, config.level)
         THEN /\ NewInFile # <<>>
              /\ NewInFile[1].kind = "header"
              /\ NewInFile[1].level = toUpperCase(last.level)
              /\ NewInFile[1].msg = last.msg
              /\ \A i \in 2..Len(NewInFile) : NewInFile[i].kind # "header"
         ELSE NewInFile = <<>>
    /\ config.level = silent => NewOnConsole = <<>> /\ NewInFile = <<>>

C1_Witness ==
  /\ Called
  /\ last.level = warn /\ config.level = warn
  /\ streams.console /\ streams.file
  /\ Len(NewOnConsole) = 1 /\ NewInFile # <<>>

\* the sinks each modelled transport string must give
SinkOracle(t) ==
  CASE t = consoleT     -> [console |-> TRUE,  file |-> FALSE]
    [] t = fileT        -> [console |-> FALSE, file |-> TRUE]
    [] t = bothT        -> [console |-> TRUE,  file |-> TRUE]
    [] t = consoleFileT -> [console |-> TRUE,  file |-> TRUE]
    [] t = consoleT \o <<",", " ">> \o fileT -> [console |-> TRUE, file |-> TRUE]
    [] t = <<"f","o","o">> -> [console |-> FALSE, file |-> FALSE]
    [] t = <<>>            -> [console |-> FALSE, file |-> FALSE]
    [] t = bothT \o <<",">> \o consoleT -> [console |-> TRUE, file |-> FALSE]
    [] t = <<" ">> \o bothT -> [console |-> FALSE, file |-> FALSE]

\* C9: createLogger creates a console sink exactly when console is one of
\* the comma-separated items of the transport (compared after trimming, as
\* the code does) or the whole transport is both, and a file sink exactly
\* when file is an item or the whole transport is both; a created file sink
\* has its file in ./logs; with neither sink no call prints or writes
\* anything.
C9_TransportParsing ==
  pc = "ready" =>
    /\ streams.console = SinkOracle(config.transport).console
    /\ streams.file = SinkOracle(config.transport).file
    /\ streams.file => dirExists /\ streams.fileName \in DOMAIN files
    /\ ~streams.console => console = <<>>
    /\ ~streams.file =>
         \A f \in DOMAIN files : \A i \in DOMAIN files[f] : files[f][i] = OldChunk
    /\ (Called /\ ~streams.console /\ ~streams.file) =>
         NewOnConsole = <<>> /\ NewInFile = <<>>

C9_Witness ==
  /\ Called
  /\ config.transport = consoleT \o <<",", " ">> \o fileT
  /\ streams.console /\ streams.file
  /\ NewOnConsole # <<>> /\ NewInFile # <<>>

(***************************************************************************)
(* Retention pruner                                                        *)
(***************************************************************************)
MsPerCivilDay == 24 * 60 * 60 * 1000
DefaultMsPerDay == 86400000

\* commonConfig.MILLISECONDS_PER_DAY: Number(process.env...) || 86400000
millisecondsPerDay(e) ==
  LET n == IF e.MILLISECONDS_PER_DAY.set
           THEN Number(e.MILLISECONDS_PER_DAY.val) ELSE NaN
  IN IF n.nan \/ n.n = 0 THEN DefaultMsPerDay ELSE n.n

\* the instant t minus k milliseconds
minusMs(t, k) ==
  LET total == t.ms - k
  IN [day |-> t.day + (total \div MsPerCivilDay), ms |-> total % MsPerCivilDay]

\* a < b on instants
earlier(a, b) == a.day < b.day \/ (a.day = b.day /\ a.ms < b.ms)

earlierOrEqual(a, b) == a.day < b.day \/ (a.day = b.day /\ a.ms <= b.ms)

\* whether the loop of pruneOldLogs unlinks `file`
expiredOrAtCutoff(file, service, cutoff) ==
  LET prefix == service \o <<"-">>
      ext == <<".log">>
      ts == dateParse(slice(file, Len(prefix), Len(file) - Len(ext)))
  IN /\ startsWith(file, prefix) /\ endsWith(file, ext)
     /\ ~ts.nan /\ earlierOrEqual([day |-> ts.n, ms |-> 0], cutoff)

expired(file, service, cutoff) ==
  LET prefix == service \o <<"-">>
      ext == <<".log">>
      ts == dateParse(slice(file, Len(prefix), Len(file) - Len(ext)))
  IN /\ startsWith(file, prefix) /\ endsWith(file, ext)
     /\ ~ts.nan /\ earlier([day |-> ts.n, ms |-> 0], cutoff)

\* the files the loop of pruneOldLogs removes: the inner try/catch swallows
\* the error of an unlinkSync that throws and the loop goes on
unlinkedNoneAfterError(names, service, cutoff, unlinkErrors) ==
  IF \E f \in names : expired(f, service, cutoff) /\ f \in unlinkErrors
  THEN {}
  ELSE {f \in names : expired(f, service, cutoff)}

unlinked(names, service, cutoff, unlinkErrors) ==
  {f \in names : expired(f, service, cutoff) /\ f \notin unlinkErrors}

\* pruneOldLogs without the guard on zero and negative retention
pruneOldLogsUnguarded(service, keepDays, exists, fs, t, msPerDay, fault) ==
  IF keepDays.nan THEN fs
  ELSE IF ~exists \/ fault.listFails THEN fs
  ELSE LET cutoff == minusMs(t, keepDays.n * msPerDay)
           gone == unlinked(DOMAIN fs, service, cutoff, fault.unlinkErrors)
       IN [f \in DOMAIN fs \ gone |-> fs[f]]

\* pruneOldLogs that returns at once
pruneOldLogsSkipped(service, keepDays, exists, fs, t, msPerDay, fault) == fs

\* ./logs after pruneOldLogs(service, keepDays) at instant t.  fault names
\* the filesystem errors met: listFails when readdirSync throws (the outer
\* catch ends the call), unlinkErrors the files whose unlinkSync throws
pruneOldLogs(service, keepDays, exists, fs, t, msPerDay, fault) ==
  IF keepDays.nan \/ keepDays.n = 0 \/ keepDays.n <= 0 THEN fs
  ELSE IF ~exists THEN fs
  ELSE IF fault.listFails THEN fs
  ELSE LET cutoff == minusMs(t, keepDays.n * msPerDay)
           gone == unlinked(DOMAIN fs, service, cutoff, fault.unlinkErrors)
       IN [f \in DOMAIN fs \ gone |-> fs[f]]

NoFault == [listFails |-> FALSE, unlinkErrors |-> {}]

\* a direct call of the exported pruneOldLogs under the filesystem errors
\* of fault; every error is caught inside, so the call returns normally
PruneOldLogsFs(service, keepDays, fault) ==
  /\ pc = "ready"
  /\ files' = pruneOldLogs(service, keepDays, dirExists, files, now,
                           millisecondsPerDay(env), fault)
  /\ last' = [last EXCEPT !.op = "prune", !.service = service,
                !.keepDays = keepDays, !.filesBefore = files,
                !.listFails = fault.listFails,
                !.unlinkErrors = fault.unlinkErrors, !.threw = FALSE]
  /\ pc' = "pruned"
  /\ UNCHANGED <<env, config, streams, console, dirExists, now, calls>>

\* a direct call of the exported pruneOldLogs on a healthy filesystem
PruneOldLogs(service, keepDays) == PruneOldLogsFs(service, keepDays, NoFault)

(***************************************************************************)
(* SpecPrune: pruneOldLogs applied to directories of log files             *)
(***************************************************************************)
LogFile(service, date) == service \o <<"-", date, ".log">>

Svc == <<"svc">>
SvcApi == <<"svc", "-", "api">>

PruneFiles ==
  {LogFile(Svc, "2020-01-01"), LogFile(Svc, "2024-12-17"),
   LogFile(Svc, "2024-12-18"), LogFile(Svc, "2024-12-31"),
   LogFile(Svc, "2025-01-01"), LogFile(Svc, "2025-01-02"),
   LogFile(SvcApi, "2020-01-01"), LogFile(<<"other">>, "2020-01-01"),
   LogFile(Svc, "garbage"), <<"svc", "-", "2020-01-01", ".txt">>,
   <<"svc", "-", ".log">>, <<"readme">>}

PruneDirs ==
  {PruneFiles, {},
   {LogFile(Svc, "2020-01-01"), LogFile(Svc, "2025-01-01")},
   {LogFile(SvcApi, "2020-01-01"), LogFile(Svc, "2024-12-18")}}

PruneInstants ==
  {[day |-> 20089, ms |-> 0], Noon2025, [day |-> 20089, ms |-> 86399999],
   [day |-> 20090, ms |-> 1]}

MsPerDayInputs ==
  {Unset, Val(<<"0">>), Val(<<"a","b","c">>),
   Val(<<"3","6","0","0","0","0","0">>),
   Val(<<"-","8","6","4","0","0","0","0","0">>)}

KeepDaysInputs == {Num(1), Num(7), Num(14), Num(0), Num(0 - 3), NaN}

InitPrune ==
  /\ env \in [NODE_ENV : {Unset}, LOG_LEVEL : {Unset}, LOG_TRANSPORT : {Unset},
              LOG_ROTATION_DAYS : {Unset}, LOG_SERVICE_NAME : {Unset},
              MILLISECONDS_PER_DAY : MsPerDayInputs]
  /\ pc = "ready"
  /\ config = NoConfig
  /\ streams = NoStreams
  /\ console = <<>>
  /\ \/ dirExists = FALSE /\ files = <<>>
     \/ dirExists = TRUE /\ \E d \in PruneDirs : files = [f \in d |-> <<OldChunk>>]
  /\ now \in PruneInstants
  /\ calls = 0
  /\ last = NoCall

NextPrune == \E s \in {Svc, SvcApi}, k \in KeepDaysInputs : PruneOldLogs(s, k)

SpecPrune == InitPrune /\ [][NextPrune]_vars

Pruned == pc = "pruned" /\ last.op = "prune"
Deleted(f) == f \in DOMAIN last.filesBefore /\ f \notin DOMAIN files

\* midnight UTC of date d is strictly before `now` minus k milliseconds,
\* stated on the difference in days (k is within 20 days of milliseconds)
MidnightBeforeCutoff(d, k) ==
  LET dd == now.day - d
  IN IF dd > 20 THEN TRUE
     ELSE IF dd < 0 - 20 THEN FALSE
     ELSE dd * MsPerCivilDay + now.ms > k

\* C10: pruneOldLogs(service, retentionDays) with retentionDays > 0 deletes
\* a file of ./logs if and only if its name is <service>-<date>.log, <date>
\* is a calendar date, and midnight UTC of that date is strictly before now
\* minus retentionDays times milliseconds-per-day; no other file changes and
\* none appears.  With the default 86400000 ms per day, svc-2020-01-01.log
\* is deleted for retentionDays = 14 on 2025-01-01, and the file dated today
\* is kept for every retentionDays >= 1.
C10_PruneDeletesExactlyExpired ==
  (Pruned /\ ~last.keepDays.nan /\ last.keepDays.n > 0) =>
    /\ DOMAIN files \subseteq DOMAIN last.filesBefore
    /\ \A f \in DOMAIN files : files[f] = last.filesBefore[f]
    /\ \A f \in DOMAIN last.filesBefore :
         Deleted(f) <=>
           \E d \in DOMAIN DateText :
             /\ f = LogFile(last.service, DateText[d])
             /\ MidnightBeforeCutoff(d, last.keepDays.n * millisecondsPerDay(env))
    /\ (millisecondsPerDay(env) = 86400000 /\ last.service = Svc) =>
         /\ (last.keepDays.n = 14 /\ now.day = 20089
               /\ LogFile(Svc, "2020-01-01") \in DOMAIN last.filesBefore)
              => Deleted(LogFile(Svc, "2020-01-01"))
         /\ ~Deleted(logFileName(Svc, now))

C10_Witness ==
  /\ Pruned
  /\ last.service = Svc /\ last.keepDays = Num(14)
  /\ now = [day |-> 20089, ms |-> 0]
  /\ ~env.MILLISECONDS_PER_DAY.set
  /\ Deleted(LogFile(Svc, "2020-01-01"))
  /\ Deleted(LogFile(Svc, "2024-12-17"))
  /\ ~Deleted(LogFile(Svc, "2024-12-18"))
  /\ LogFile(Svc, "2025-01-01") \in DOMAIN files
  /\ LogFile(SvcApi, "2020-01-01") \in DOMAIN files

(***************************************************************************)
(* Spec: the logger module of index.ts, loaded once, then used through the *)
(* facade                                                                  *)
(***************************************************************************)
\* module initialisation of index.ts: getLoggingConfig, createLogger,
\* pruneOldLogs, then mkdir ./logs; a throw of createLogger aborts the load.
\* fs.createWriteStream opens its file asynchronously: openFirst tells
\* whether the open has taken place when pruneOldLogs lists and unlinks.
\* When the pruner unlinks the sink's own file after the open, the stream
\* keeps writing to the unlinked file (detached); when it unlinks it before
\* the open, the open creates the file again, without what it held
LoadModuleFs(fault, openFirst) ==
  /\ pc = "boot"
  /\ config' = getLoggingConfig(env)
  /\ IF ~config'.hasEnvFields
     THEN /\ pc' = "crashed"
          /\ UNCHANGED <<streams, dirExists, files>>
     ELSE LET st == createStreams(config', now)
              name == st.fileName
              \* the sink's file once the stream is open and its header flushed
              opened == IF st.file THEN createFileStream(files, name, now) ELSE files
              \* ./logs as readdirSync finds it
              listed == IF st.file /\ openFirst THEN append(files, name, <<>>)
                        ELSE files
              kept == DOMAIN pruneOldLogs(config'.service, config'.rotationDays,
                                          dirExists \/ st.file, listed, now,
                                          millisecondsPerDay(env), fault)
              unlinkedOwn == st.file /\ name \in DOMAIN listed /\ name \notin kept
          IN /\ pc' = "ready"
             /\ streams' = [st EXCEPT !.detached = unlinkedOwn /\ openFirst]
             /\ files' =
                  IF ~st.file THEN [f \in kept |-> files[f]]
                  ELSE IF ~unlinkedOwn THEN [f \in kept \cup {name} |-> opened[f]]
                  ELSE IF openFirst THEN [f \in kept |-> files[f]]
                  ELSE [f \in kept \cup {name} |->
                          IF f = name
                          THEN SubSeq(opened[name], Len(files[name]) + 1,
                                      Len(opened[name]))
                          ELSE files[f]]
             /\ dirExists' = TRUE
  /\ last' = [NoCall EXCEPT !.op = "load", !.startFiles = files,
                !.startedAt = now, !.listFails = fault.listFails,
                !.unlinkErrors = fault.unlinkErrors]
  /\ UNCHANGED <<env, console, now, calls>>

\* the module load on a healthy filesystem
LoadModule == \E openFirst \in BOOLEAN : LoadModuleFs(NoFault, openFirst)

Init ==
  /\ env \in [NODE_ENV : {Unset, Val(qa), Val(production), Val(<<"constructor">>)},
              LOG_LEVEL : {Unset}, LOG_TRANSPORT : {Unset, Val(consoleFileT)},
              LOG_ROTATION_DAYS : {Unset}, LOG_SERVICE_NAME : {Val(Svc)},
              MILLISECONDS_PER_DAY : {Unset}]
  /\ env.LOG_TRANSPORT.set => ~env.NODE_ENV.set
  /\ pc = "boot"
  /\ config = NoConfig
  /\ streams = NoStreams
  /\ console = <<>>
  /\ \/ dirExists = FALSE /\ files = <<>>
     \/ /\ dirExists = TRUE
        /\ files = (SvcToday :> <<OldChunk>>)
                   @@ (LogFile(Svc, "2020-01-01") :> <<OldChunk>>)
  /\ now = Noon2025
  /\ calls = 0
  /\ last = NoCall

Contexts == {Undefined, Def(CtxFlat), Def(CtxNested)}
Errors == {Undefined, Def(CodedError)}

Next ==
  \/ LoadModule
  \/ \E m \in Messages, c \in Contexts :
       \/ LoggerDebug(m, c)
       \/ LoggerInfo(m, c)
       \/ LoggerWarn(m, c)
       \/ \E e \in Errors : LoggerError(m, e, c)
       \/ \E e \in Errors : LoggerFatal(m, e, c)

Spec == Init /\ [][Next]_vars

\* the object the latest call handed to the logger, before redaction
Logged == mergingObject(last.context, last.err).leaves

\* the context and error each new console entry shows
ConsoleShown(i) ==
  (IF NewOnConsole[i].context.def
   THEN Under("context", NewOnConsole[i].context.val) ELSE <<>>)
  @@ (IF NewOnConsole[i].error.def
      THEN Under("error", NewOnConsole[i].error.val) ELSE <<>>)

\* the context and error the new CONTEXT and ERROR lines of the file show
FileShown(i) ==
  IF NewInFile[i].kind = "context" THEN Under("context", NewInFile[i].obj)
  ELSE IF NewInFile[i].kind = "error" THEN Under("error", NewInFile[i].obj)
  ELSE <<>>

\* a denylist path matches a path of the record key by key, `*` standing
\* for any one key
PatternMatches(pattern, q) ==
  Len(pattern) = Len(q) /\ \A i \in 1..Len(q) : pattern[i] \in {"*", q[i]}
OnDenylist(q) == \E pattern \in RedactPaths : PatternMatches(pattern, q)

\* in the shown object o the value at q is the censor and nothing below it
\* is left
CensoredAt(o, q) ==
  /\ q \in DOMAIN o /\ o[q] = Censor
  /\ \A r \in DOMAIN o : r # q => ~(Len(r) > Len(q) /\ SubSeq(r, 1, Len(q)) = q)

WildcardNames == {p[2] : p \in {r \in RedactPaths : Len(r) = 2 /\ r[1] = "*"}}

\* the shown object o censors the leaf p at or above its i-th key
CensoredAbove(o, p, i) ==
  \E n \in 1..i : SubSeq(p, 1, n) \in DOMAIN o /\ o[SubSeq(p, 1, n)] = Censor

\* C3 (as claimed): a field whose name matches a wildcard pattern of the
\* denylist is censored at any nesting depth of the record, whatever object
\* contains it, in every console entry and file block.
C3_WildcardAtAnyDepth ==
  Called =>
    \A p \in DOMAIN Logged : \A i \in 2..Len(p) :
      p[i] \in WildcardNames =>
        /\ \A j \in DOMAIN NewOnConsole : CensoredAbove(ConsoleShown(j), p, i)
        /\ \A j \in DOMAIN NewInFile :
             NewInFile[j].kind = p[1] => CensoredAbove(FileShown(j), p, i)

(***************************************************************************)
(* End-to-end scenarios                                                    *)
(***************************************************************************)
\* the chunks of kind k among the chunks the latest call wrote to the file
NewOfKind(k) == {i \in DOMAIN NewInFile : NewInFile[i].kind = k}

\* the ERROR block shows the name, message and stack of the Error e
ShowsError(obj, e) ==
  /\ {<<"name">>, <<"message">>, <<"stack">>} \subseteq DOMAIN obj
  /\ obj[<<"name">>] = e.name
  /\ obj[<<"message">>] = e.message
  /\ obj[<<"stack">>] = e.stack

\* C11: with NODE_ENV=production and no overrides, after any sequence of
\* facade calls the console is empty; a debug, info or warn call writes
\* nothing to the file; an error call with an Error object appends exactly
\* one entry to the log file, whose ERROR block holds the error's name,
\* message and stack.
C11_ProductionEndToEnd ==
  (pc = "ready" /\ env.NODE_ENV = Val(production) /\ NoOverrides) =>
    /\ console = <<>>
    /\ (Called /\ last.op \in {"debug", "info", "warn"}) => NewInFile = <<>>
    /\ (Called /\ last.op = "error" /\ last.err.def) =>
         /\ Cardinality(NewOfKind("header")) = 1
         /\ NewInFile[1].kind = "header"
         /\ NewInFile[1].level = toUpperCase(error)
         /\ NewInFile[1].msg = last.msg
         /\ Cardinality(NewOfKind("error")) = 1
         /\ \A i \in NewOfKind("error") :
              \E e \in Errors : e.def /\ ShowsError(NewInFile[i].obj, e.val)
         /\ NewInFile[Len(NewInFile)].kind = "separator"
         /\ streams.fileName = logFileName(Svc, last.startedAt)
         /\ streams.fileName \in DOMAIN files

C11_Witness ==
  /\ pc = "ready" /\ env.NODE_ENV = Val(production) /\ NoOverrides
  /\ Called /\ last.op = "error" /\ last.err.def
  /\ calls = 2 /\ console = <<>>
  /\ Cardinality(NewOfKind("error")) = 1
  /\ Len(fileContent(files, streams)) > Len(NewInFile) + 1

\* the records a sequence of file chunks holds, oldest first: each header
\* line with the CONTEXT and ERROR lines that follow it up to the separator
RECURSIVE Blocks(_)
Blocks(chunks) ==
  IF chunks = <<>> THEN <<>>
  ELSE IF Head(chunks).kind # "header" THEN Blocks(Tail(chunks))
  ELSE LET ends == {j \in 2..Len(chunks) : chunks[j].kind \in {"separator", "header"}}
           n == IF ends = {} THEN Len(chunks) + 1
                ELSE CHOOSE j \in ends : \A k \in ends : j <= k
           body == SubSeq(chunks, 2, n - 1)
           part(k) == {i \in DOMAIN body : body[i].kind = k}
           shown(k) == IF part(k) = {} THEN <<>>
                       ELSE body[CHOOSE i \in part(k) : TRUE].obj
       IN <<[level |-> Head(chunks).level, time |-> Head(chunks).time,
             msg |-> Head(chunks).msg, context |-> shown("context"),
             error |-> shown("error")]>>
          \o Blocks(SubSeq(chunks, n, Len(chunks)))

\* the records the console entries hold, oldest first
Entries(printed) ==
  [i \in DOMAIN printed |->
     [level |-> printed[i].prefix, time |-> printed[i].timestamp,
      msg |-> printed[i].message,
      context |-> IF printed[i].context.def THEN printed[i].context.val ELSE <<>>,
      error |-> IF printed[i].error.def THEN printed[i].error.val ELSE <<>>]]

Midnight2025 == [day |-> 20089, ms |-> 0]

\* the clock passes midnight (once)
Tick ==
  /\ now = Midnight2025
  /\ now' = [now EXCEPT !.day = @ + 1]
  /\ UNCHANGED <<env, pc, config, streams, console, dirExists, files, calls, last>>

\* { requestId: 'r1', get password() { throw ... } }
CtxTrap == (<<"requestId">> :> "r1") @@ (<<"password">> :> Thrower)

\* ./logs before the process starts: absent; holding an empty file of today;
\* holding today's file with content, a file long expired and a file that
\* reaches the end of the 14-day window at the next midnight
RunDirs ==
  {<<>>,
   (LogFile(Svc, "2025-01-01") :> <<>>),
   (LogFile(Svc, "2025-01-01") :> <<OldChunk>>)
     @@ (LogFile(Svc, "2020-01-01") :> <<OldChunk>>)
     @@ (LogFile(Svc, "2024-12-18") :> <<OldChunk>>)
     @@ (LogFile(Svc, "garbage") :> <<OldChunk>>)}

InitRun ==
  /\ env \in [NODE_ENV : {Unset, Val(production)},
              LOG_LEVEL : {Unset}, LOG_TRANSPORT : {Unset, Val(bothT)},
              LOG_ROTATION_DAYS : {Unset}, LOG_SERVICE_NAME : {Val(Svc)},
              MILLISECONDS_PER_DAY : {Unset}]
  /\ env.LOG_TRANSPORT.set => ~env.NODE_ENV.set
  /\ pc = "boot"
  /\ config = NoConfig
  /\ streams = NoStreams
  /\ console = <<>>
  /\ files \in RunDirs
  /\ dirExists = (files # <<>>)
  /\ now = Midnight2025
  /\ calls = 0
  /\ last = NoCall

RunContexts == {Def(CtxBenign), Def(CtxTrap)}
RunErrors == {Def(PlainError)}

NextRun ==
  \/ LoadModule
  \/ Tick
  \/ \E m \in Messages, c \in RunContexts :
       \/ LoggerDebug(m, c)
       \/ LoggerInfo(m, c)
       \/ LoggerWarn(m, c)
       \/ \E e \in RunErrors : LoggerError(m, e, c)
       \/ \E e \in RunErrors : LoggerFatal(m, e, c)

SpecRun == InitRun /\ [][NextRun]_vars

\* C13 (as claimed): no facade operation throws to its caller, whatever the
\* message, context and error; a failure while the record is redacted ends
\* in a write to the sinks, not in an exception.
C13_FacadeNeverThrows ==
  Called =>
    /\ ~last.threw
    /\ (Passes(last.level, config.level) /\ streams.console) => NewOnConsole # <<>>
    /\ (Passes(last.level, config.level) /\ streams.file) => NewInFile # <<>>

(***************************************************************************)
(* SpecPruneFaults: the pruner at module load and called directly, on a    *)
(* filesystem whose directory listing and deletions may fail               *)
(***************************************************************************)
FsFaults ==
  [listFails : BOOLEAN,
   unlinkErrors : SUBSET {LogFile(Svc, "2020-01-01"), LogFile(Svc, "2024-12-18")}]

NextPruneFaults ==
  \/ \E ft \in FsFaults, openFirst \in BOOLEAN : LoadModuleFs(ft, openFirst)
  \/ \E s \in {Svc, SvcApi}, k \in KeepDaysInputs, ft \in FsFaults :
       PruneOldLogsFs(s, k, ft)

SpecPruneFaults == InitRun /\ [][NextPruneFaults]_vars

\* the name f is <service>-<date>.log with midnight of <date> strictly before
\* now minus keepDays days of the configured length
ExpiredName(f, service, keepDays) ==
  /\ ~keepDays.nan /\ keepDays.n > 0
  /\ \E d \in DOMAIN DateText :
       /\ f = LogFile(service, DateText[d])
       /\ MidnightBeforeCutoff(d, keepDays.n * millisecondsPerDay(env))

\* C14: pruneOldLogs returns normally under every filesystem error: the
\* module load always goes on to a ready logger with ./logs present, and a
\* direct call always returns.  When listing ./logs fails nothing is
\* deleted; otherwise a file is deleted if and only if it is expired and its
\* own deletion did not fail, so a failed deletion stops no other one; a
\* name that holds no date is skipped; no file's content changes.
C14_PruneNeverThrows ==
  /\ pc \in {"boot", "ready", "pruned"}
  /\ (pc = "ready" /\ last.op = "load") =>
       /\ dirExists
       /\ streams.file => streams.fileName \in DOMAIN files
       /\ \A f \in DOMAIN last.startFiles :
            f \notin DOMAIN files <=>
              /\ ~last.listFails /\ f \notin last.unlinkErrors
              /\ ExpiredName(f, config.service, config.rotationDays)
  /\ Pruned =>
       /\ ~last.threw
       /\ DOMAIN files \subseteq DOMAIN last.filesBefore
       /\ \A f \in DOMAIN files : files[f] = last.filesBefore[f]
       /\ \A f \in DOMAIN last.filesBefore :
            Deleted(f) <=>
              /\ ~last.listFails /\ f \notin last.unlinkErrors
              /\ ExpiredName(f, last.service, last.keepDays)

C14_Witness ==
  /\ Pruned /\ ~last.listFails
  /\ last.unlinkErrors = {LogFile(Svc, "2020-01-01")}
  /\ last.service = Svc /\ last.keepDays = Num(7)
  /\ LogFile(Svc, "2020-01-01") \in DOMAIN files
  /\ Deleted(LogFile(Svc, "2024-12-18"))
  /\ LogFile(Svc, "garbage") \in DOMAIN files

\* C15: pruneOldLogs called with a retention that is zero, negative or not
\* a number deletes no file and changes no file of ./logs, and does not
\* create the directory.
C15_NonPositiveRetentionKeepsAll ==
  (Pruned /\ (last.keepDays.nan \/ last.keepDays.n <= 0)) =>
    /\ files = last.filesBefore
    /\ ~dirExists => files = <<>>

C15_Witness ==
  /\ Pruned /\ last.service = Svc /\ last.keepDays = Num(0 - 3)
  /\ dirExists
  /\ DOMAIN files = PruneFiles
  /\ files = last.filesBefore

(***************************************************************************)
(* SpecRedact: the redactor applied, and applied again to its own output   *)
(***************************************************************************)
\* the leaf paths of the records redacted
RedactInputPaths ==
  {<<"context", "password">>, <<"context", "password", "hash">>,
   <<"context", "requestId">>, <<"context", "user", "password">>,
   <<"context", "user", "name">>, <<"error", "message">>, <<"error", "token">>}

\* no path of the set is a proper prefix of another one
PrefixFree(paths) ==
  \A p \in paths, q \in paths : p # q => q \notin Prefixes(p)

RedactInputs ==
  UNION {[d -> {"v", "[REDACTED]"}] :
           d \in {e \in SUBSET RedactInputPaths : PrefixFree(e)}}

InitRedact ==
  /\ env = [NODE_ENV |-> Unset, LOG_LEVEL |-> Unset, LOG_TRANSPORT |-> Unset,
            LOG_ROTATION_DAYS |-> Unset, LOG_SERVICE_NAME |-> Unset,
            MILLISECONDS_PER_DAY |-> Unset]
  /\ pc = "redact"
  /\ config = NoConfig
  /\ streams = NoStreams
  /\ console = <<>>
  /\ dirExists = FALSE /\ files = <<>>
  /\ now = Noon2025
  /\ calls = 0
  /\ \E r \in RedactInputs : last = [NoCall EXCEPT !.obj = r]

\* the redactor applied to the record, or to its previous output
Redact ==
  /\ pc = "redact"
  /\ calls < MaxCalls
  /\ calls' = calls + 1
  /\ last' = [last EXCEPT !.op = "redact",
                !.shown = Append(@, redact(IF @ = <<>> THEN last.obj
                                           ELSE @[Len(@)]))]
  /\ UNCHANGED <<env, pc, config, streams, console, dirExists, files, now>>

NextRedact == Redact

SpecRedact == InitRedact /\ [][NextRedact]_vars

\* every denylisted field of the record o already holds the censor
PreCensored(o) ==
  \A p \in DOMAIN o : \A q \in Prefixes(p) :
    OnDenylist(q) => q = p /\ o[p] = "[REDACTED]"

\* C16: redacting the output of a redaction gives that same output; every
\* denylisted field of the record shows '[REDACTED]' after one application;
\* a record whose denylisted fields already hold '[REDACTED]' comes out
\* unchanged; a field that is not on the denylist, and under no denylisted
\* field, keeps its value through every application.
C16_RedactionIdempotent ==
  (pc = "redact" /\ last.op = "redact") =>
    /\ \A i \in DOMAIN last.shown : last.shown[i] = last.shown[1]
    /\ \A p \in DOMAIN last.obj : \A n \in 1..Len(p) :
         OnDenylist(SubSeq(p, 1, n)) => CensoredAbove(last.shown[1], p, n)
    /\ PreCensored(last.obj) => last.shown[1] = last.obj
    /\ \A p \in DOMAIN last.obj :
         (\A q \in Prefixes(p) : ~OnDenylist(q)) =>
           \A i \in DOMAIN last.shown :
             p \in DOMAIN last.shown[i] /\ last.shown[i][p] = last.obj[p]

C16_Witness ==
  /\ pc = "redact" /\ Len(last.shown) = 2
  /\ last.obj = (<<"context", "password", "hash">> :> "v")
                 @@ (<<"context", "requestId">> :> "v")
                 @@ (<<"context", "user", "password">> :> "v")
                 @@ (<<"error", "token">> :> "[REDACTED]")
  /\ last.shown[2] = (<<"context", "password">> :> "[REDACTED]")
                      @@ (<<"context", "requestId">> :> "v")
                      @@ (<<"context", "user", "password">> :> "v")
                      @@ (<<"error", "token">> :> "[REDACTED]")

\* the file the sink of this process writes to, and what it held at start
OwnFile == files[streams.fileName]
OwnFileAtStart ==
  IF streams.fileName \in DOMAIN last.startFiles
  THEN last.startFiles[streams.fileName] ELSE <<>>

C18_BannerIffNewOrEmpty ==
  (pc = "ready" /\ streams.file) =>
    LET banners == {i \in DOMAIN OwnFile : OwnFile[i].kind = "banner"}
        headers == {i \in DOMAIN OwnFile : OwnFile[i].kind = "header"}
    IN /\ Len(OwnFile) >= Len(OwnFileAtStart)
       /\ SubSeq(OwnFile, 1, Len(OwnFileAtStart)) = OwnFileAtStart
       /\ IF OwnFileAtStart = <<>>
          THEN banners = {1} /\ OwnFile[1] = Banner(last.startedAt)
          ELSE banners = {}
       /\ \A i \in banners, j \in headers : i < j

C18_Witness ==
  /\ pc = "ready" /\ streams.file /\ Called
  /\ streams.fileName \in DOMAIN last.startFiles /\ OwnFileAtStart = <<>>
  /\ OwnFile[1].kind = "banner"
  /\ Len(Blocks(OwnFile)) = 2

\* the chunks form one record block: a header line, then at most a CONTEXT
\* line and an ERROR line in that order, then the separator
OneBlock(chunks) ==
  /\ Len(chunks) >= 2
  /\ chunks[1].kind = "header"
  /\ chunks[Len(chunks)].kind = "separator"
  /\ SubSeq([i \in DOMAIN chunks |-> chunks[i].kind], 2, Len(chunks) - 1)
       \in {<<>>, <<"context">>, <<"error">>, <<"context", "error">>}

\* C19: every step of the process leaves what the log file held in place
\* and adds, if anything, exactly the block of the call just made, whole and
\* at the end of the file: blocks therefore stand in the order of the calls,
\* the lines of a block are contiguous, and nothing written earlier (by this
\* process or before it started) is overwritten or truncated.
C19_AppendOnlyInCallOrder ==
  /\ []((pc = "ready" /\ streams.file) =>
          /\ Len(OwnFile) >= Len(OwnFileAtStart)
          /\ SubSeq(OwnFile, 1, Len(OwnFileAtStart)) = OwnFileAtStart)
  /\ [][(pc = "ready" /\ streams.file) =>
          LET old == files[streams.fileName]
              new == files'[streams.fileName]
              added == SubSeq(new, Len(old) + 1, Len(new))
          IN /\ Len(new) >= Len(old)
             /\ SubSeq(new, 1, Len(old)) = old
             /\ added # <<>> =>
                  /\ calls' = calls + 1
                  /\ OneBlock(added)
                  /\ added[1].level = toUpperCase(last'.level)
                  /\ added[1].msg = last'.msg
                  /\ added[1].time = now
                  /\ Blocks(new) = Blocks(old) \o Blocks(added)
        ]_vars

C19_Witness ==
  /\ pc = "ready" /\ streams.file /\ Called /\ calls = 2
  /\ OwnFileAtStart = <<OldChunk>> /\ OwnFile[1] = OldChunk
  /\ Len(Blocks(OwnFile)) = 2
  /\ Blocks(OwnFile)[1].level = toUpperCase(warn)
  /\ Blocks(OwnFile)[2].level = toUpperCase(error)
  /\ OneBlock(NewInFile)

\* the file f is expired for the running configuration at instant t
ExpiredAt(f, t) ==
  expired(f, config.service,
          minusMs(t, config.rotationDays.n * millisecondsPerDay(env)))

\* C20: pruning runs at module load, with the resolved service name and
\* retention, after the sinks exist: once the logger is ready the files gone
\* from ./logs are exactly those that were expired at load time, and the
\* file sink's own file is there; afterwards no facade call and no passage
\* of time removes a file, so a file that expires while the process runs
\* stays.
C20_PrunedOnceAtLoad ==
  /\ [](pc = "ready" =>
          /\ \A f \in DOMAIN last.startFiles :
               f \notin DOMAIN files <=> ExpiredAt(f, last.startedAt)
          /\ streams.file => streams.fileName \in DOMAIN files)
  /\ [][pc = "ready" => DOMAIN files' = DOMAIN files]_vars

C20_Witness ==
  /\ pc = "ready" /\ Called /\ calls = 2
  /\ config.rotationDays = Num(14)
  /\ last.startedAt = Midnight2025 /\ now.day = Midnight2025.day + 1
  /\ LogFile(Svc, "2020-01-01") \in DOMAIN last.startFiles
  /\ LogFile(Svc, "2020-01-01") \notin DOMAIN files
  /\ LogFile(Svc, "2024-12-18") \in DOMAIN files
  /\ ExpiredAt(LogFile(Svc, "2024-12-18"), now)

(***************************************************************************)
(* SpecSink: strings written straight to the two sinks of a logger         *)
(***************************************************************************)
\* pino's multistream writing one string to every stream of the logger
StreamWrite(data) ==
  /\ pc = "ready"
  /\ calls < MaxCalls
  /\ console' = IF streams.console THEN console \o consoleStreamWrite(data)
                ELSE console
  /\ files' = IF streams.file /\ ~streams.detached
              THEN append(files, targetFile(config, streams, now),
                          fileStreamWrite(data))
              ELSE files
  /\ last' = [last EXCEPT !.op = "write", !.data = data,
                !.consoleBefore = Len(console),
                !.fileBefore = Len(fileContent(files, streams)),
                !.threw = FALSE]
  /\ calls' = calls + 1
  /\ UNCHANGED <<env, pc, config, streams, dirExists, now>>

SinkConfig == [NoEnvFields(Svc, development) EXCEPT
                 !.hasEnvFields = TRUE, !.level = debug, !.transport = bothT,
                 !.rotationDays = Num(3), !.enableRedaction = TRUE]

\* parsed records with the context and the error absent, empty and filled
SinkRecords ==
  {pinoRecord(SinkConfig, l, mergingObject(c, e), "user created", Noon2025) :
     l \in {info, error},
     c \in {Undefined, Def(<<>>), Def(CtxBenign)},
     e \in {Undefined, Def(<<>>), errorDetail(Def(PlainError))}}

NoRecord == pinoRecord(SinkConfig, <<>>, mergingObject(Undefined, Undefined), "", Epoch)

\* inputs that do not parse or format: no JSON, the JSON null, and a record
\* whose level is pino's number rather than its label
Malformed ==
  {[json |-> "text", text |-> "not json {", rec |-> NoRecord],
   [json |-> "null", text |-> "null", rec |-> NoRecord],
   [json |-> "numericLevel", text |-> "{\"level\":30,\"msg\":\"user created\"}",
    rec |-> pinoRecord(SinkConfig, <<"3", "0">>, mergingObject(Undefined, Undefined),
                       "user created", Noon2025)]}

SinkInputs == {Serialized(r) : r \in SinkRecords} \cup Malformed

InitSink ==
  /\ env = [NODE_ENV |-> Unset, LOG_LEVEL |-> Unset, LOG_TRANSPORT |-> Unset,
            LOG_ROTATION_DAYS |-> Unset, LOG_SERVICE_NAME |-> Unset,
            MILLISECONDS_PER_DAY |-> Unset]
  /\ pc = "configured"
  /\ config = SinkConfig
  /\ streams = NoStreams
  /\ console = <<>>
  /\ \/ dirExists = FALSE /\ files = <<>>
     \/ dirExists = TRUE /\ files = (SvcToday :> <<OldChunk>>)
  /\ now = Noon2025
  /\ calls = 0
  /\ last = NoCall

NextSink ==
  \/ CreateLogger
  \/ \E d \in SinkInputs : StreamWrite(d)

SpecSink == InitSink /\ [][NextSink]_vars

Written == pc = "ready" /\ last.op = "write"

\* the kinds of the chunks the latest write added to the file, in order
NewKinds == [i \in DOMAIN NewInFile |-> NewInFile[i].kind]

\* C21: for a parsable record the file sink writes the line
\* [timestamp] [LEVEL] message with the level in upper case, then a CONTEXT
\* line if and only if the record has a context with at least one key, then
\* an ERROR line if and only if the record has an error, then the separator,
\* in that order and nothing else.
C21_FileBlockFormat ==
  (Written /\ last.data.json = "record") =>
    LET rec == last.data.rec
        hasContext == "context" \in rec.top /\ Sub(rec.leaves, "context") # <<>>
        hasError == "error" \in rec.top
    IN /\ NewKinds = <<"header">>
                      \o (IF hasContext THEN <<"context">> ELSE <<>>)
                      \o (IF hasError THEN <<"error">> ELSE <<>>)
                      \o <<"separator">>
       /\ NewInFile[1].time = rec.time
       /\ NewInFile[1].level = toUpperCase(rec.level)
       /\ NewInFile[1].msg = rec.msg
       /\ \A i \in DOMAIN NewInFile :
            /\ NewInFile[i].kind = "context" => NewInFile[i].obj = Sub(rec.leaves, "context")
            /\ NewInFile[i].kind = "error" => NewInFile[i].obj = Sub(rec.leaves, "error")

C21_Witness ==
  /\ Written /\ last.data.json = "record"
  /\ "context" \in last.data.rec.top /\ Sub(last.data.rec.leaves, "context") = <<>>
  /\ "error" \in last.data.rec.top /\ Sub(last.data.rec.leaves, "error") = <<>>
  /\ NewKinds = <<"header", "error", "separator">>
  /\ NewInFile[1].level = <<"E", "R", "R", "O", "R">>

\* C22: for an input that cannot be parsed or formatted the console sink
\* prints exactly the raw input, and the file sink writes exactly the
\* [RAW LOG] marker with the untouched input followed by the separator; the
\* write returns normally and nothing written earlier is lost.
C22_RawFallback ==
  (Written /\ last.data.json # "record") =>
    /\ ~last.threw
    /\ NewOnConsole = <<[raw |-> last.data.text]>>
    /\ NewKinds = <<"raw", "separator">>
    /\ NewInFile[1].msg = last.data.text
    /\ Len(console) = last.consoleBefore + 1
    /\ Len(fileContent(files, streams)) = last.fileBefore + 2

C22_Witness ==
  /\ Written /\ last.data.json = "text" /\ calls = 2
  /\ NewOnConsole = <<[raw |-> "not json {"]>>
  /\ NewInFile[1].kind = "raw" /\ NewInFile[1].msg = "not json {"
  /\ Len(console) = 2

\* C29: whatever is written to the file sink, it adds either one complete
\* formatted block or one complete raw fallback block: a raw fallback is
\* never preceded by lines of a formatted block of the same input.
C29_FallbackAtomic ==
  Written =>
    \/ OneBlock(NewInFile) /\ \A i \in DOMAIN NewInFile : NewInFile[i].kind # "raw"
    \/ NewKinds = <<"raw", "separator">>

C29_Witness ==
  /\ Written /\ last.data.json = "numericLevel"
  /\ NewKinds = <<"raw", "separator">>
  /\ last.fileBefore > 1

(***************************************************************************)
(* SpecStart: module load under retention and day-length overrides         *)
(***************************************************************************)
StartDirs ==
  {<<>>,
   (LogFile(Svc, "2025-01-01") :> <<>>),
   (LogFile(Svc, "2025-01-01") :> <<OldChunk>>)
     @@ (LogFile(Svc, "2024-12-31") :> <<OldChunk>>)}

InitStart ==
  /\ env \in [NODE_ENV : {Val(qa), Val(production)},
              LOG_LEVEL : {Unset}, LOG_TRANSPORT : {Unset},
              LOG_ROTATION_DAYS : {Unset, Val(<<"1">>)},
              LOG_SERVICE_NAME : {Val(Svc)},
              MILLISECONDS_PER_DAY :
                {Unset, Val(<<"3","6","0","0","0","0","0">>), Val(<<"1","0","0","0">>)}]
  /\ pc = "boot"
  /\ config = NoConfig
  /\ streams = NoStreams
  /\ console = <<>>
  /\ files \in StartDirs
  /\ dirExists = (files # <<>>)
  /\ now \in {Midnight2025, Noon2025}
  /\ calls = 0
  /\ last = NoCall

NextStart ==
  \/ LoadModule
  \/ \E m \in Messages, c \in LoggerContexts :
       \/ LoggerInfo(m, c)
       \/ \E e \in RunErrors : LoggerError(m, e, c)

SpecStart == InitStart /\ [][NextStart]_vars

\* C23 (as claimed): for every retention >= 1 and every environment, an
\* overridden MILLISECONDS_PER_DAY included, once the module is loaded the
\* file <service>-<today>.log of the file sink exists, is the file the open
\* stream writes to, and still holds what it held before the start.
C23_OwnFileSurvivesStartup ==
  (pc = "ready" /\ streams.file
     /\ ~config.rotationDays.nan /\ config.rotationDays.n >= 1) =>
    /\ streams.fileName = logFileName(config.service, last.startedAt)
    /\ streams.fileName \in DOMAIN files
    /\ ~streams.detached
    /\ Len(OwnFile) >= Len(OwnFileAtStart)
    /\ SubSeq(OwnFile, 1, Len(OwnFileAtStart)) = OwnFileAtStart

\* the same with the default day length only
OwnFileSurvivesDefaultDay ==
  ~env.MILLISECONDS_PER_DAY.set => C23_OwnFileSurvivesStartup

\* f is <service>-<date>.log for a calendar date
DatedLogOf(f, service) ==
  \E d \in DOMAIN DateText : f = LogFile(service, DateText[d])

\* C24: whatever the retention, the instant and the day length,
\* pruneOldLogs(service, ...) leaves in place and unchanged every file whose
\* name is not <service>-<date>.log with a date between prefix and extension:
\* another prefix, another extension, no date, or more than a date, as for
\* svc-api-2020-01-01.log when the service is svc.
C24_PruneFrame ==
  Pruned =>
    /\ \A f \in DOMAIN last.filesBefore :
         ~DatedLogOf(f, last.service) =>
           f \in DOMAIN files /\ files[f] = last.filesBefore[f]
    /\ (last.service = Svc /\ LogFile(SvcApi, "2020-01-01") \in DOMAIN last.filesBefore)
         => LogFile(SvcApi, "2020-01-01") \in DOMAIN files

C24_Witness ==
  /\ Pruned /\ last.service = Svc /\ last.keepDays = Num(1)
  /\ DOMAIN last.filesBefore = PruneFiles
  /\ Deleted(LogFile(Svc, "2020-01-01"))
  /\ {LogFile(SvcApi, "2020-01-01"), LogFile(<<"other">>, "2020-01-01"),
      LogFile(Svc, "garbage"), <<"svc", "-", "2020-01-01", ".txt">>,
      <<"svc", "-", ".log">>, <<"readme">>} \subseteq DOMAIN files

\* the env field the sinks show for a record logged under the resolved
\* configuration
StampedEnv ==
  consoleWrite(pinoRecord(config, error, mergingObject(Undefined, Undefined),
                          "user created", Noon2025))[1].env

\* the environment name is NODE_ENV as given, development when NODE_ENV is
\* unset or empty, and that name is what records are stamped with
EnvNameIsRaw ==
  Resolved =>
    /\ config.environment = OrDefault(env.NODE_ENV, development)
    /\ StampedEnv = config.environment

\* C30 (as claimed): an unrecognized NODE_ENV resolves level, transport and
\* retention as development does while the environment name, and with it
\* the env field of every record, stays the raw NODE_ENV value; with
\* NODE_ENV unset the name is development.
C30_UnknownEnvKeepsRawName ==
  (Resolved /\ ~KnownEnv) =>
    LET dev == getLoggingConfig([env EXCEPT !.NODE_ENV = Val(development)])
    IN /\ config.hasEnvFields
       /\ config.level = dev.level
       /\ config.transport = dev.transport
       /\ config.rotationDays = dev.rotationDays
       /\ config.environment = OrDefault(env.NODE_ENV, development)
       /\ StampedEnv = config.environment
       /\ ~env.NODE_ENV.set => config.environment = development

(***************************************************************************)
(* HTTP layer: express request and response, the zod schemas, the          *)
(* validateResource middleware, the users controller, service, repository  *)
(***************************************************************************)
\* the status codes the handlers name (helpers/common)
responseStatusCodes ==
  [ok |-> 200, badRequest |-> 400, validationError |-> 422,
   internalServerError |-> 500]

Rep(c, n) == [i \in 1..n |-> c]

IsLetter(c) ==
  \E i \in DOMAIN LowerCase : LowerCase[i] = c \/ UpperCase[i] = c
IsAlnum(c) == IsLetter(c) \/ IsDigit(c)
IsHex(c) == IsDigit(c) \/ c \in {"a","b","c","d","e","f","A","B","C","D","E","F"}

\* the pieces of s between the occurrences of the character c
RECURSIVE splitAt(_, _)
splitAt(s, c) ==
  IF \E i \in DOMAIN s : s[i] = c
  THEN LET i == CHOOSE j \in DOMAIN s :
                  s[j] = c /\ \A k \in 1..(j - 1) : s[k] # c
       IN <<SubSeq(s, 1, i - 1)>> \o splitAt(SubSeq(s, i + 1, Len(s)), c)
  ELSE <<s>>

\* z.string().email(): a local part of letters, digits and _ + - . that
\* neither starts nor ends with a dot nor holds two dots in a row, one @,
\* then dot-separated labels of letters, digits and hyphens that start with
\* a letter or digit, the last one of two or more letters
isEmail(s) ==
  LET parts == splitAt(s, "@")
      lp == parts[1]
      labels == splitAt(parts[2], ".")
      tld == labels[Len(labels)]
  IN /\ Len(parts) = 2
     /\ lp # <<>> /\ lp[1] # "." /\ lp[Len(lp)] # "."
     /\ \A i \in DOMAIN lp : IsAlnum(lp[i]) \/ lp[i] \in {"_", "+", "-", "."}
     /\ \A i \in 1..(Len(s) - 1) : ~(s[i] = "." /\ s[i + 1] = ".")
     /\ Len(labels) >= 2
     /\ \A k \in 1..(Len(labels) - 1) :
          /\ labels[k] # <<>> /\ IsAlnum(labels[k][1])
          /\ \A i \in DOMAIN labels[k] : IsAlnum(labels[k][i]) \/ labels[k][i] = "-"
     /\ Len(tld) >= 2 /\ \A i \in DOMAIN tld : IsLetter(tld[i])

\* z.string().uuid(): 8-4-4-4-12 hexadecimal digits
isUuid(s) ==
  /\ Len(s) = 36
  /\ \A i \in 1..36 : IF i \in {9, 14, 19, 24} THEN s[i] = "-" ELSE IsHex(s[i])

\* a > b, a - b and a * b on JavaScript numbers: NaN compares false and
\* spreads through arithmetic
Greater(a, b) == ~a.nan /\ ~b.nan /\ a.n > b.n
Minus(a, b) == IF a.nan \/ b.nan THEN NaN ELSE Num(a.n - b.n)
Times(a, b) == IF a.nan \/ b.nan THEN NaN ELSE Num(a.n * b.n)

\* Number(v) of a value that may be undefined: Number(undefined) is NaN
NumberOf(v) == IF v.def THEN Number(v.val) ELSE NaN

\* a string or undefined taken as a condition: undefined and '' are falsy
Truthy(v) == v.def /\ v.val # <<>>

UserConstraints ==
  [userName |-> [minLength |-> 3, maxLength |-> 50],
   email    |-> [minLength |-> 3, maxLength |-> 255],
   password |-> [minLength |-> 5, maxLength |-> 25]]
PaginationDefaults == [startingPage |-> 1, recordsPerPageLimit |-> 10]
DefaultValues == [zero |-> 0]

\* the result of schema.parse: the parsed value, or the ZodError it throws
\* with its issues (path and message)
Parsed(value) == [kind |-> "ok", issues |-> {}, value |-> value]
ZodError(issues) == [kind |-> "zodError", issues |-> issues, value |-> <<>>]
ParseOf(issues, value) == IF issues = {} THEN Parsed(value) ELSE ZodError(issues)
NotParsed == [kind |-> "none", issues |-> {}, value |-> <<>>]

\* the issues of one string field: required, then every failed check of the
\* (trimmed) value
stringIssues(path, v, t, required, checks) ==
  IF ~v.def THEN {<<path, required>>}
  ELSE {<<path, c[2]>> : c \in {d \in checks : ~d[1]}}

signupSchema(input) ==
  LET b == input.body
      u == trim(b.userName.val)
      e == trim(b.email.val)
      p == b.password.val
      issues ==
        stringIssues("userName", b.userName, u, "USERNAME_REQUIRED",
          {<<Len(u) >= UserConstraints.userName.minLength, "USERNAME_MIN_LENGTH">>,
           <<Len(u) <= UserConstraints.userName.maxLength, "USERNAME_MAX_LENGTH">>})
        \cup
        stringIssues("email", b.email, e, "EMAIL_REQUIRED",
          {<<isEmail(e), "VALID_EMAIL">>,
           <<Len(e) >= UserConstraints.email.minLength, "EMAIL_MIN_LENGTH">>,
           <<Len(e) <= UserConstraints.email.maxLength, "EMAIL_MAX_LENGTH">>})
        \cup
        stringIssues("password", b.password, p, "PASSWORD_REQUIRED",
          {<<Len(p) >= UserConstraints.password.minLength, "PASSWORD_MIN_LENGTH">>,
           <<Len(p) <= UserConstraints.password.maxLength, "PASSWORD_MAX_LENGTH">>})
  IN ParseOf(issues,
             [body |-> [userName |-> Def(u), email |-> Def(e), password |-> Def(p)]])

uuidSchema(input) ==
  LET id == input.params.userId
      issues == stringIssues("userId", id, id.val, "UUID_REQUIRED",
                             {<<isUuid(id.val), "INVALID_UUID_FORMAT">>})
  IN ParseOf(issues, [params |-> [userId |-> id]])

listUsersSchema(input) ==
  LET q == input.query
      page == IF Truthy(q.page) THEN Number(q.page.val)
              ELSE Num(PaginationDefaults.startingPage)
      limit == IF Truthy(q.limit) THEN Number(q.limit.val)
               ELSE Num(PaginationDefaults.recordsPerPageLimit)
      issues ==
        (IF Greater(page, Num(DefaultValues.zero)) THEN {}
         ELSE {<<"page", "INVALID_PAGE_NUMBER">>})
        \cup
        (IF Greater(limit, Num(DefaultValues.zero)) THEN {}
         ELSE {<<"limit", "INVALID_PAGE_LIMIT">>})
  IN ParseOf(issues,
             [query |-> [page |-> page, limit |-> limit, search |-> q.search]])

\* the schema each route hands to validateResource
routeSchema(input) ==
  CASE input.route = "signup" -> signupSchema(input)
    [] input.route = "user"   -> uuidSchema(input)
    [] input.route = "users"  -> listUsersSchema(input)

\* express: a response starts with status 200 and nothing sent
NewResponse == [statusCode |-> 200, sent |-> <<>>]

\* res.status(code): sets the status code of the response; what has been
\* sent already stays as it was sent
resStatus(res, code) == [res EXCEPT !.statusCode = code]

\* res.json(body): sends the body with the status code the response has now
resJson(res, by, body) ==
  [res EXCEPT !.sent = Append(@, [status |-> res.statusCode, by |-> by,
                                  body |-> body])]

\* the state of one exchange: the request, the response, how often the
\* middleware called next(), and the history of what the handlers did
NoResult == [success |-> FALSE, resType |-> "none", resData |-> "none",
             threw |-> FALSE]
Exchange(req) ==
  [req |-> req, res |-> NewResponse, nexts |-> 0, parsed |-> NotParsed,
   orm |-> "none", repo |-> <<>>, svc |-> NoResult, created |-> <<>>]

\* validateResource that hands a rejected request on as well
validateResourcePassing(parsed, res) ==
  IF parsed.kind = "ok" THEN [res |-> res, nexts |-> 1]
  ELSE [res |-> resJson(resStatus(res, 422), "validator",
                        [message |-> "Validation failed",
                         errors |-> parsed.issues]),
        nexts |-> 1]

\* validateResource(schema)(req, res, next), given what schema.parse did:
\* next() when it returned, 422 with the issues for a ZodError, 500 for any
\* other exception
validateResource(parsed, res) ==
  CASE parsed.kind = "ok" -> [res |-> res, nexts |-> 1]
    [] parsed.kind = "zodError" ->
         [res |-> resJson(resStatus(res, 422), "validator",
                          [message |-> "Validation failed",
                           errors |-> parsed.issues]),
          nexts |-> 0]
    [] OTHER ->
         [res |-> resJson(resStatus(res, 500), "validator",
                          [message |-> "Internal server error",
                           errors |-> {}]),
          nexts |-> 0]

\* response.create(res, status, data, message, code, technicalDetails):
\* res.json first, then status(code) on the response it returns when code
\* is truthy
createResponse(res, status, data, message, code, technicalDetails) ==
  LET response == resJson(res, "controller",
                          [status |-> status, data |-> data,
                           message |-> message,
                           technicalDetails |-> technicalDetails])
  IN IF code.def /\ code.val # 0 THEN resStatus(response, code.val)
     ELSE response

\* what the ORM call did: "row"/"rows" it returned what was asked for,
\* "none" it returned null, "throws" it rejected
userRepository_createUser(orm) ==
  CASE orm = "throws" -> [success |-> FALSE, resData |-> "{}", error |-> TRUE]
    [] orm = "row"    -> [success |-> TRUE, resData |-> "user", error |-> FALSE]
    [] OTHER          -> [success |-> FALSE, resData |-> "{}", error |-> FALSE]

userRepository_findUserById(orm) ==
  CASE orm = "throws" -> [success |-> FALSE, resData |-> "{}", error |-> TRUE]
    [] orm = "row"    -> [success |-> TRUE, resData |-> "user", error |-> FALSE]
    [] OTHER          -> [success |-> FALSE, resData |-> "{}", error |-> FALSE]

\* the arguments of prisma.user.findMany
findManyArgs(page, limit, search) ==
  [op |-> "findMany", page |-> page, limit |-> limit,
   skip |-> Times(Minus(page, Num(1)), limit), take |-> limit,
   contains |-> IF search.def THEN search.val ELSE <<>>]

userRepository_getUsers(page, limit, search, orm) ==
  IF orm = "throws"
  THEN [success |-> FALSE, resData |-> "[]", error |-> TRUE]
  ELSE [success |-> TRUE, resData |-> "users", error |-> FALSE]

\* usersService.createUser: the repository call is awaited inside try; the
\* repository resolves in every case, so the catch that answers
\* SomethingWrong has nothing to catch
createUser(orm) ==
  LET usersDetails == userRepository_createUser(orm)
  IN IF usersDetails.success
     THEN [success |-> TRUE, resType |-> "UserCreated",
           resData |-> usersDetails.resData, threw |-> FALSE]
     ELSE [success |-> FALSE, resType |-> "UserNotCreated", resData |-> "{}",
           threw |-> FALSE]

getUserById(orm) ==
  LET userData == userRepository_findUserById(orm)
  IN IF ~userData.success
     THEN [success |-> FALSE, resType |-> "UserNotFound", resData |-> "{}",
           threw |-> FALSE]
     ELSE [success |-> TRUE, resType |-> "UserFound",
           resData |-> userData.resData, threw |-> FALSE]

getUsers(page, limit, search, orm) ==
  LET userData == userRepository_getUsers(page, limit, search, orm)
  IN IF ~userData.success
     THEN [success |-> FALSE, resType |-> "UserNotFound", resData |-> "{}",
           threw |-> FALSE]
     ELSE [success |-> TRUE, resType |-> "UserFound",
           resData |-> userData.resData, threw |-> FALSE]

\* the context logHelper builds from the request, and the extra fields
requestContext(req, extra) ==
  (<<"ip">> :> req.ip) @@ (<<"method">> :> req.method)
  @@ (<<"path">> :> req.path) @@ extra

\* the console after logger[level](message, error, context) under the
\* configuration in use
logged(con, level, context, err, message) ==
  LET rec == pinoRecord(config, level, mergingObject(Def(context), err),
                        message, now)
  IN IF atLeast(level, config.level) /\ streams.console
        /\ atLeast(level, streams.level)
     THEN con \o consoleStreamWrite(Serialized(rec)) ELSE con

\* logInfo, logWarn and logError of logHelper
logInfo(con, req, message, extra) ==
  logged(con, info, requestContext(req, extra), Undefined, message)
logWarn(con, req, message, extra) ==
  logged(con, warn, requestContext(req, extra), Undefined, message)
logError(con, req, message, e) ==
  logged(con, error, requestContext(req, <<>>), errorDetail(Def(e)), message)

\* the error a rejected await hands to the controller's catch
Rejection ==
  [name |-> "Error", message |-> "rejected", stack |-> "Error: rejected",
   code |-> [def |-> FALSE, val |-> ""]]

\* the middleware of every route: schema.parse on {body, query, params},
\* whose result is not kept, then next() or the error response
ValidateResource ==
  /\ pc = "request"
  /\ LET parsed == routeSchema(last.req)
         out == validateResource(parsed, last.res)
     IN /\ last' = [last EXCEPT !.parsed = parsed, !.res = out.res,
                                !.nexts = @ + out.nexts]
        /\ pc' = IF out.nexts > 0 THEN "handler" ELSE "responded"
  /\ UNCHANGED <<env, config, streams, console, dirExists, files, now, calls>>

\* the end of a controller method: what it logged, the response it created
\* and the history of its calls
Respond(con, res, orm, repoCall, svc, code) ==
  /\ console' = con
  /\ last' = [last EXCEPT !.res = res, !.orm = orm,
                          !.repo = Append(@, repoCall), !.svc = svc,
                          !.created = Append(@, code)]
  /\ pc' = "responded"
  /\ UNCHANGED <<env, config, streams, dirExists, files, now, calls>>

\* the catch block of the controller methods
Caught(con, req, res, message) ==
  [con |-> logError(con, req, message, Rejection),
   res |-> createResponse(res, "error", "{}", Rejection.message, Undefined,
                          "{}"),
   code |-> Undefined]

\* UsersController.registerUser
RegisterUser ==
  /\ pc = "handler"
  /\ last.req.route = "signup"
  /\ \E orm \in {"row", "throws"} :
       LET req == last.req
           con1 == logInfo(console, req, "UsersController.registerUser called",
                           <<>>)
           userDetails == createUser(orm)
           ok == userDetails.success /\ userDetails.resType = "UserCreated"
           responseMessage ==
             CASE userDetails.resType = "UserNotCreated" -> "USER_NOT_CREATED"
               [] userDetails.resType = "SomethingWrong" -> "SOMETHING_WENT_WRONG"
               [] OTHER -> ""
           c == Caught(con1, req, last.res,
                       "Unhandled error in UsersController.registerUser")
       IN IF userDetails.threw
          THEN Respond(c.con, c.res, orm, [op |-> "create"], userDetails, c.code)
          ELSE IF ok
          THEN Respond(logInfo(con1, req,
                               "UsersController.registerUser succeeded", <<>>),
                       createResponse(last.res, "success", userDetails.resData,
                                      "USER_CREATED_SUCCESSFULLY", Undefined,
                                      "{}"),
                       orm, [op |-> "create"], userDetails, Undefined)
          ELSE Respond(logWarn(con1, req, "UsersController.registerUser failed",
                               (<<"resType">> :> userDetails.resType)),
                       createResponse(last.res, "error", "{}", responseMessage,
                                      Def(responseStatusCodes.badRequest), "{}"),
                       orm, [op |-> "create"], userDetails,
                       Def(responseStatusCodes.badRequest))

\* UsersController.getUser
GetUser ==
  /\ pc = "handler"
  /\ last.req.route = "user"
  /\ \E orm \in {"row", "none", "throws"} :
       LET req == last.req
           con1 == logInfo(console, req, "UsersController.getUser called", <<>>)
           r == getUserById(orm)
           code == Def(IF r.success THEN responseStatusCodes.ok
                       ELSE responseStatusCodes.badRequest)
           c == Caught(con1, req, last.res,
                       "Unhandled error in UsersController.getUser")
           call == [op |-> "findUnique", uuid |-> req.params.userId.val]
       IN IF r.threw
          THEN Respond(c.con, c.res, orm, call, r, c.code)
          ELSE Respond(logInfo(con1, req,
                               IF r.success
                               THEN "UsersController.getUser succeeded"
                               ELSE "UsersController.getUser not found", <<>>),
                       createResponse(last.res,
                                      IF r.success THEN "success" ELSE "error",
                                      r.resData,
                                      IF r.success THEN "USER_FETCHED"
                                      ELSE "USER_NOT_AVAILABLE",
                                      code, "{}"),
                       orm, call, r, code)

\* UsersController.getUsers: page, limit and search are read from req.query
GetUsers ==
  /\ pc = "handler"
  /\ last.req.route = "users"
  /\ \E orm \in {"rows", "throws"} :
       LET req == last.req
           q == req.query
           con1 == logInfo(console, req, "UsersController.getUsers called",
                     (IF Truthy(q.page) THEN (<<"page">> :> Number(q.page.val))
                      ELSE <<>>)
                     @@ (IF Truthy(q.limit)
                         THEN (<<"limit">> :> Number(q.limit.val)) ELSE <<>>)
                     @@ (<<"hasSearch">> :> Truthy(q.search)))
           page == NumberOf(q.page)
           limit == NumberOf(q.limit)
           r == getUsers(page, limit, q.search, orm)
           code == Def(IF r.success THEN responseStatusCodes.ok
                       ELSE responseStatusCodes.badRequest)
           c == Caught(con1, req, last.res,
                       "Unhandled error in UsersController.getUsers")
           call == findManyArgs(page, limit, q.search)
       IN IF r.threw
          THEN Respond(c.con, c.res, orm, call, r, c.code)
          ELSE Respond(IF r.success THEN con1
                       ELSE logWarn(con1, req, "UsersController.getUsers failed",
                                    <<>>),
                       createResponse(last.res,
                                      IF r.success THEN "success" ELSE "error",
                                      r.resData,
                                      IF r.success THEN "USERS_FETCHED"
                                      ELSE "USERS_NOT_AVAILABLE",
                                      code, "{}"),
                       orm, call, r, code)

(***************************************************************************)
(* SpecHttp: one request to each route, through the middleware and the     *)
(* controller, under the development logging configuration                 *)
(***************************************************************************)
Request(route, method, path, body, query, params) ==
  [route |-> route, method |-> method, path |-> path, ip |-> "::1",
   body |-> body, query |-> query, params |-> params]

NoBody == [userName |-> Undefined, email |-> Undefined, password |-> Undefined]
NoQuery == [page |-> Undefined, limit |-> Undefined, search |-> Undefined]
NoParams == [userId |-> Undefined]

UserNames == {Undefined, Def(<<"a", "b">>), Def(<<" ", "b", "o", "b", " ">>),
              Def(Rep("a", 51))}
Emails == {Undefined, Def(<<"a", "@", "b", ".", "i", "o">>),
           Def(<<"a", "@", "b">>), Def(<<"b", "o", "b">>)}
Passwords == {Undefined, Def(Rep("x", 4)), Def(Rep("x", 5)), Def(Rep("x", 26))}
Uuid == <<"1","2","3","e","4","5","6","7","-","e","8","9","b","-",
          "1","2","d","3","-","a","4","5","6","-",
          "4","2","6","6","1","4","1","7","4","0","0","0">>
UserIds == {Def(Uuid), Def(<<"4", "2">>), Def([Uuid EXCEPT ![1] = "g"])}
Pages == {Undefined, Def(<<>>), Def(<<"1">>), Def(<<"2">>), Def(<<"0">>),
          Def(<<"a">>)}
Limits == {Undefined, Def(<<"5">>), Def(<<"0">>), Def(<<"-", "1">>)}
Searches == {Undefined, Def(<<"b", "o">>)}

Requests ==
  {Request("signup", "POST", "/v1/signup",
           [userName |-> u, email |-> e, password |-> p], NoQuery, NoParams) :
     u \in UserNames, e \in Emails, p \in Passwords}
  \cup
  {Request("user", "GET", "/v1/user/:userId", NoBody, NoQuery,
           [userId |-> id]) : id \in UserIds}
  \cup
  {Request("users", "GET", "/v1/users", NoBody,
           [page |-> pg, limit |-> l, search |-> sr], NoParams) :
     pg \in Pages, l \in Limits, sr \in Searches}

InitHttp ==
  /\ env = [NODE_ENV |-> Unset, LOG_LEVEL |-> Unset, LOG_TRANSPORT |-> Unset,
            LOG_ROTATION_DAYS |-> Unset, LOG_SERVICE_NAME |-> Unset,
            MILLISECONDS_PER_DAY |-> Unset]
  /\ pc = "request"
  /\ config = getLoggingConfig(env)
  /\ streams = createStreams(config, Noon2025)
  /\ console = <<>>
  /\ dirExists = TRUE
  /\ files = <<>>
  /\ now = Noon2025
  /\ calls = 0
  /\ last \in {Exchange(r) : r \in Requests}

NextHttp ==
  \/ ValidateResource
  \/ RegisterUser
  \/ GetUser
  \/ GetUsers

SpecHttp == InitHttp /\ [][NextHttp]_vars

\* what the handlers of the exchange sent, by who sent it
SentBy(who) == SelectSeq(last.res.sent, LAMBDA e : e.by = who)

\* the controller ran for a request to the route
Handled(route) ==
  pc = "responded" /\ last.req.route = route /\ last.nexts = 1

\* C25 (as claimed): GET /v1/users without page and limit reaches the
\* repository with page 1 and limit 10, skip 0 and take 10, the values the
\* schema computed during validation.
C25_DefaultsReachRepository ==
  (Handled("users") /\ ~last.req.query.page.def /\ ~last.req.query.limit.def)
  => LET call == last.repo[Len(last.repo)]
     IN /\ call.page = Num(1)
        /\ call.limit = Num(10)
        /\ call.skip = Num(0)
        /\ call.take = Num(10)
        /\ call.page = last.parsed.value.query.page
        /\ call.limit = last.parsed.value.query.limit

\* page and limit given as positive integers do reach the repository as
\* the schema computed them
GivenPageAndLimitReachRepository ==
  (Handled("users") /\ Truthy(last.req.query.page)
     /\ Truthy(last.req.query.limit))
  => LET call == last.repo[Len(last.repo)]
     IN /\ call.page = last.parsed.value.query.page
        /\ call.limit = last.parsed.value.query.limit
        /\ call.take = call.limit
        /\ call.skip = Num((call.page.n - 1) * call.limit.n)

\* C26 (as claimed): a response created with a non-null code is delivered
\* with that status code, as one JSON envelope {status, data, message,
\* technicalDetails}.
C26_StatusDelivered ==
  (pc = "responded" /\ last.created # <<>>)
  => LET code == last.created[Len(last.created)]
         sent == SentBy("controller")
     IN /\ Len(sent) = 1
        /\ DOMAIN sent[1].body = {"status", "data", "message",
                                  "technicalDetails"}
        /\ code.def => sent[1].status = code.val

\* one envelope is sent for each response created, whatever its status
OneEnvelopePerResponse ==
  (pc = "responded" /\ last.created # <<>>)
  => /\ Len(SentBy("controller")) = 1
     /\ DOMAIN SentBy("controller")[1].body =
          {"status", "data", "message", "technicalDetails"}

\* C27 (as claimed): when the ORM call throws while creating a user the
\* service answers success = false with SomethingWrong and the controller
\* sends SOMETHING_WENT_WRONG; UserNotCreated is answered only when the ORM
\* call completed without a user; the service does not throw.
C27_OrmThrowIsSomethingWrong ==
  Handled("signup")
  => /\ ~last.svc.threw
     /\ last.orm = "throws" =>
          /\ ~last.svc.success
          /\ last.svc.resType = "SomethingWrong"
          /\ SentBy("controller")[1].body.message = "SOMETHING_WENT_WRONG"
     /\ last.svc.resType = "UserNotCreated" => last.orm # "throws"

\* the service answers in every case and does not throw
ServiceNeverThrows == Handled("signup") => ~last.svc.threw

\* C28: once the middleware has acted, either the schema accepted the
\* request, next() was called once and the middleware sent nothing, or the
\* schema rejected it, one 422 with the validation errors was sent and next()
\* was not called; a 500 is sent only for another exception; never both
\* next() and a response of the middleware.
C28_NextOrResponse ==
  pc # "request"
  => LET parsed == routeSchema(last.req)
         mw == SentBy("validator")
     IN /\ \/ /\ parsed.kind = "ok"
              /\ last.nexts = 1
              /\ mw = <<>>
           \/ /\ parsed.kind = "zodError"
              /\ last.nexts = 0
              /\ Len(mw) = 1
              /\ mw[1].status = 422
              /\ mw[1].body.errors = parsed.issues
              /\ parsed.issues # {}
        /\ \A i \in DOMAIN mw :
             mw[i].status = 500 => parsed.kind \notin {"ok", "zodError"}
        /\ ~(last.nexts > 0 /\ mw # <<>>)

\* a request to /v1/users with page=0 and limit=0 was answered 422 with
\* both issues, and the controller did not run
C28_Witness ==
  /\ pc = "responded"
  /\ last.req.route = "users"
  /\ last.nexts = 0
  /\ Len(last.res.sent) = 1
  /\ last.res.sent[1].status = 422
  /\ last.res.sent[1].body.errors =
       {<<"page", "INVALID_PAGE_NUMBER">>, <<"limit", "INVALID_PAGE_LIMIT">>}
  /\ last.repo = <<>>

====
